---- MODULE Spec2Model ----
(***************************************************************************)
(* Host-side LoRa transport of LoRaFYP21/LoRa-FullStack.                   *)
(*                                                                         *)
(*  - SpecTx   : LoRaSerialSession (lora_transceiver.py): sender threads   *)
(*               running send_file / send_raw_line, the background reader  *)
(*               thread, the TX completion slot (_tx_event, _tx_last,      *)
(*               _tx_lock) and the MCU peer that answers written lines.    *)
(*  - SpecRx   : MessageReassembler.add_frag and                           *)
(*               FileChunkAssembler.add_chunk under arbitrary calls.       *)
(*  - SpecPerm : add_frag fed the fragments of one key in a permuted order.*)
(*  - SpecTxOne: SpecTx with a single send per thread.                     *)
(*  - SpecClose: SpecTxOne together with open(), close() and the reader    *)
(*               thread's exits (_stop set, ser None).                     *)
(*  - SpecReader: _reader_loop over received lines: sentinels,             *)
(*               _handle_rx_line and handle_full_payload.                  *)
(*  - SpecTrip : send_file's chunking fed chunk by chunk, in any order,    *)
(*               to handle_full_payload / add_chunk.                       *)
(*  - SpecAnyTime: SpecClose with send_file / send_raw_line called before  *)
(*               open(), during close() and after it.                      *)
(*  - SpecSendFileFair: send_file on an open session, with the reader, the *)
(*               MCU and close(), under fair scheduling of the threads.    *)
(*  - SpecRxOne: add_frag for one key and add_chunk for one file name.     *)
(*  - SpecRxKeys: add_frag for two keys and add_chunk for one file name.   *)
(*  - SpecMesh : MeshNetworkInterface.send_fragmented_data                 *)
(*               (mesh_network_interface.py), chunk by chunk.              *)
(*  - SpecMeshRel: MeshNetworkInterface.send_file for every reliability    *)
(*               level and file name.                                      *)
(*  - SpecMeshRx: MeshReceiver.process_payload (mesh_receiver.py):         *)
(*               handle_fragment, handle_file, handle_text_message.        *)
(*  - SpecMeshText: MeshNetworkInterface.send_text, single packet or       *)
(*               fragmented.                                               *)
(*  - SpecMeshFrag: handle_fragment fed any index, total and chunk text.   *)
(*  - SpecScripts: the chunk loops of tx_send_file.py and of the two       *)
(*               tx_send_mseed.py scripts.                                 *)
(*  - SpecListen: MeshReceiver.listen over the lines of the node.          *)
(*  - SpecCleanup: listen with the clock and cleanup_old_fragments.        *)
(*  - SpecMeshGui: send_fragmented_data started from mesh_gui.py, with the *)
(*               monitor thread reading the same serial port.              *)
(***************************************************************************)
EXTENDS Integers, Sequences, FiniteSets, TLC

(***************************************************************************)
(* Bounds of the model.                                                    *)
(***************************************************************************)
\* number of send_file / send_raw_line calls started in one run
MaxCalls == 2
\* largest number of FILECHUNK lines (len(chunks)) of one send_file call
MaxChunks == 2

\* largest fragment / chunk index and total delivered to the assemblers
MaxIdx == 2
MaxTot == 2
\* number of add_frag / add_chunk calls in one run
MaxRxCalls == 2
\* largest total of the permuted deliveries
MaxPermTotal == 3
\* number of close() calls in one run
MaxCloses == 2
\* number of lines the reader is fed in one run
MaxLines == 3
\* round trip: longest payload built from TripByteValues, largest
\* chunk_size_chars, largest number of FILECHUNK payloads of one transfer
MaxBytes == 3
MaxChunkSize == 4
MaxTripChunks == 4
\* largest total_chunks of a mesh transfer
MaxMeshChunks == 10
\* largest total_chunks of the transfers that vary file name and reliability
MaxRelChunks == 2
\* number of payloads and fragments the mesh receiver is fed in one run
MaxMeshRxCalls == 3
\* longest text given to MeshNetworkInterface.send_text
MaxTextLen == 451
\* largest number of FILECHUNK lines of a standalone sender run
MaxScriptChunks == 4
\* largest index and total of the fragments fed to handle_fragment alone
MaxFragIdx == 2
MaxFragTotal == 2
\* lines read by one run of MeshReceiver.listen
MaxListenLines == 4
\* the clock of the receiver, in seconds since listen began
MaxNow == 362
\* lines waiting in the serial buffer of the mesh node
MaxChanLines == 2

\* GUI worker threads (gui_app.py starts one per click) that call into the session
Senders == {"t1", "t2"}

VARIABLES
    \* ---- LoRaSerialSession: TX completion signalling ----
    tx_event,    \* threading.Event flag
    tx_last,     \* Optional[TxResult]; ghost field staleFor
    tx_lock,     \* holder of _tx_lock: "none", "reader" or a sender
    \* ---- sender threads ----
    pc,          \* position of each sender thread
    kind,        \* "file" (send_file), "raw" / "rawwait" (send_raw_line)
    idx,         \* loop variable idx of send_file
    tot,         \* len(chunks) of the running call
    ret,         \* return value of the last call: "none", "true", "false"
    calls,       \* calls started so far
    \* ---- history of the running call (ghost) ----
    sent,        \* indices of the lines written by the call, in order
    acks,        \* number of success results the call obtained
    failedAt,    \* index whose wait ended in a failure result, or -1
    lastRes,     \* last result _consume_tx_result returned to the thread, how the
                 \* wait ended (via) and whether the sentinel predates the line
    \* ---- reader thread and peer ----
    rdPc,        \* "nothread", "read", "lock", "signal", "exited", "dead"
    rdLine,      \* line in the reader's hand, "" if none
    rdStale,     \* ghost: senders that wrote a line after rdLine was read
    rxq,         \* lines emitted by the MCU, not yet read
    mcuPending,  \* lines the MCU received and has not answered
    \* ---- reassembly ----
    messages,    \* MessageReassembler.messages
    files,       \* FileChunkAssembler.files
    disk,        \* files persisted in out_dir: name -> bytes
    rxRet,       \* outcome of the last add_frag / add_chunk call
    rxCalls,     \* add_frag / add_chunk calls so far
    \* ---- permutation driver ----
    permTotal, permOrder, permTexts, permPos, permRets,
    \* ---- LoRaSerialSession: channel and lifetime ----
    ser,         \* self.ser: "none" (None), "open", "closed" (port closed)
    stopFlag,    \* self._stop
    closePc,     \* position of the thread inside close(): "idle" outside
    closes,      \* close() calls that returned
    closeErr,    \* an exception left close()
    \* ---- the reader fed whole lines ----
    rdLog,       \* what the reader did with the last line (ghost)
    rdCount,     \* lines read so far
    \* ---- round trip driver ----
    tripName, tripBytes, tripSize, tripOrder, tripPos,
    \* ---- MeshNetworkInterface: send_file / send_fragmented_data ----
    mPc,         \* "idle", "send" (before send_command), "wait", "done"
    mGiven,      \* argument reliability of send_file: NoLevel for None
    mName,       \* name of the file given to send_file
    mRel,        \* local variable reliability
    mIdx,        \* loop variable idx
    mTotal,      \* total_chunks
    mSent,       \* self.stats.sent_chunks
    mFailed,     \* self.stats.failed_chunks
    mRet,        \* return value: "none", "true", "false"
    mLastCmd,    \* last command handed to send_command
    mHist,       \* history of the transfer (ghost)
    \* ---- MeshReceiver ----
    mrFragments, \* self.fragments
    mrDisk,      \* files of output_dir: name -> bytes
    mrLast,      \* what the last process_payload call did (ghost)
    mrCalls,     \* process_payload calls so far
    mrNow,       \* time.time(), in seconds since the receiver started
    \* ---- MeshReceiver.listen ----
    lsAlive,     \* the loop of listen is running
    lsPending,   \* pending_data: the parsed DATA header, or none
    lsLastCleanup, \* last_cleanup
    lsLog,       \* what the last iteration did (ghost)
    lsCount,     \* lines read so far
    \* ---- standalone sender scripts ----
    sScript,     \* which script runs
    sPc,         \* "idle", "write", "wait", "done"
    sIdx,        \* loop variable idx
    sTot,        \* number of FILECHUNK lines of the file
    sHist,       \* history of the run (ghost)
    \* ---- the mesh node's serial channel and the GUI monitor thread ----
    chLines,     \* lines the node printed, not yet read by any thread
    monOn,       \* MeshNetworkGUI.monitoring (the monitor thread runs)
    chHist       \* who read what (ghost)

txVars == <<tx_event, tx_last, tx_lock, pc, kind, idx, tot, ret, calls,
            sent, acks, failedAt, lastRes, rdPc, rdLine, rdStale, rxq, mcuPending>>
rxVars == <<messages, files, disk, rxRet, rxCalls>>
permVars == <<permTotal, permOrder, permTexts, permPos, permRets>>
sessVars == <<ser, stopFlag, closePc, closes, closeErr>>
lineVars == <<rdLog, rdCount>>
tripVars == <<tripName, tripBytes, tripSize, tripOrder, tripPos>>
meshTxVars == <<mPc, mGiven, mName, mRel, mIdx, mTotal, mSent, mFailed, mRet,
                mLastCmd, mHist>>
meshRxVars == <<mrFragments, mrDisk, mrLast, mrCalls>>
meshVars == <<meshTxVars, meshRxVars>>
listenVars == <<mrNow, lsAlive, lsPending, lsLastCleanup, lsLog, lsCount>>
scriptVars == <<sScript, sPc, sIdx, sTot, sHist>>
chanVars == <<chLines, monOn, chHist>>
extVars == <<listenVars, scriptVars, chanVars>>
auxVars == <<sessVars, lineVars, tripVars, meshVars, extVars>>
vars == <<txVars, rxVars, permVars, auxVars>>

(***************************************************************************)
(* TxResult and the sentinel lines.                                        *)
(***************************************************************************)
\* _tx_last = None
NoResult == [some |-> FALSE, ok |-> FALSE, reason |-> "", staleFor |-> {}]

TxResult(ok, reason, stale) ==
    [some |-> TRUE, ok |-> ok, reason |-> reason, staleFor |-> stale]

\* no result taken yet by the running call
NoTaken == [ok |-> FALSE, reason |-> "", via |-> "none", stale |-> FALSE]

TimeoutReason == "timeout waiting for [TX DONE]"

\* status lines the MCU prints for a line it was given
SentinelLines == {"[TX DONE]", "[ABORT] no ack", "TX FAILED after retries"}

\* `marker in line` for the lines of the model
Contains(line, marker) ==
    CASE line = "[TX DONE]" -> marker = "[TX DONE]"
      [] line = "[ABORT] no ack" -> marker = "[ABORT]"
      [] line = "TX FAILED after retries" -> marker = "TX FAILED"
      [] OTHER -> FALSE

IsDoneLine(line) == Contains(line, "[TX DONE]")
IsFailLine(line) == Contains(line, "[ABORT]") \/ Contains(line, "TX FAILED")

(***************************************************************************)
(* Python dict as a function; strings as sequences of characters.          *)
(***************************************************************************)
EmptyDict == <<>>
Put(d, k, v) == [x \in (DOMAIN d) \cup {k} |-> IF x = k THEN v ELSE d[x]]
Del(d, k) == [x \in (DOMAIN d) \ {k} |-> d[x]]

\* "".join(chunks[i] for i in range(n)), given that every index is stored
RECURSIVE JoinRange(_, _)
JoinRange(chunks, n) ==
    IF n <= 0 THEN <<>> ELSE JoinRange(chunks, n - 1) \o chunks[n - 1]

\* [chunks[i] for i in range(tot)] raises KeyError when an index is missing
HasRange(chunks, n) == \A i \in 0..(n - 1) : i \in DOMAIN chunks

\* a bug that takes the assembly as complete once the highest index arrived
CompleteOnLastIndex(chunks, n) == (n - 1) \in DOMAIN chunks

\* the completion test: len(msg["chunks"]) == msg["tot"]
IsComplete(chunks, n) == Cardinality(DOMAIN chunks) = n

(***************************************************************************)
(* MessageReassembler.add_frag                                             *)
(***************************************************************************)
\* (src, seq) keys, fragment texts, and the integers a FRAG line may carry
FragKeys == {<<"A", 1>>, <<"B", 1>>}
FragTexts == {<<"a">>, <<"b", "c">>}
IdxValues == 0..MaxIdx
TotValues == 0..MaxTot

\* the call did not re-deliver a stored index
NoRedo == [hit |-> FALSE, idx |-> 0, chunk |-> <<>>, tot |-> 0, tot0 |-> 0, cnt0 |-> 0]

NoCall == [op |-> "none", kind |-> "none", key |-> <<>>, payload |-> <<>>,
           full |-> FALSE, stored |-> <<>>, redo |-> NoRedo, cnt |-> 0,
           prev |-> <<"none", <<>>>>, clobber |-> FALSE, diskKept |-> TRUE]

\* a bug that keeps the total of the first fragment of a key
InsertedKeepTotal(d, key, i, n, chunk) ==
    LET old == IF key \in DOMAIN d THEN d[key].chunks ELSE EmptyDict
    IN [tot |-> IF key \in DOMAIN d THEN d[key].tot ELSE n,
        chunks |-> Put(old, i, chunk)]

\* the entry after `msg["tot"] = tot; msg["chunks"][idx] = chunk`
Inserted(d, key, i, n, chunk) ==
    LET old == IF key \in DOMAIN d THEN d[key].chunks ELSE EmptyDict
    IN [tot |-> n, chunks |-> Put(old, i, chunk)]

\* a bug that evicts the other pending entries when a new key arrives
AddFragResultEvict(d, key, i, n, chunk) ==
    LET msg == Inserted(d, key, i, n, chunk)
        d0 == IF key \in DOMAIN d THEN d ELSE EmptyDict
        d1 == Put(d0, key, msg)
    IN  IF IsComplete(msg.chunks, msg.tot)
        THEN IF HasRange(msg.chunks, msg.tot)
             THEN [map |-> Del(d1, key), kind |-> "payload",
                   payload |-> JoinRange(msg.chunks, msg.tot)]
             ELSE [map |-> d1, kind |-> "KeyError", payload |-> <<>>]
        ELSE [map |-> d1, kind |-> "None", payload |-> <<>>]

\* add_frag: the new map and what the call returns: a payload, None, or the
\* KeyError of the list comprehension (raised before `del`)
AddFragResult(d, key, i, n, chunk) ==
    LET msg == Inserted(d, key, i, n, chunk)
        d1 == Put(d, key, msg)
    IN  IF IsComplete(msg.chunks, msg.tot)
        THEN IF HasRange(msg.chunks, msg.tot)
             THEN [map |-> Del(d1, key), kind |-> "payload",
                   payload |-> JoinRange(msg.chunks, msg.tot)]
             ELSE [map |-> d1, kind |-> "KeyError", payload |-> <<>>]
        ELSE [map |-> d1, kind |-> "None", payload |-> <<>>]

\* what the call was about: whether the count reached the total after the
\* insertion, the chunks stored then and their number; the actions add how the
\* call before ended (prev), whether write_bytes replaced a file that was
\* already in out_dir (clobber) and whether out_dir is as it was (diskKept)
\* whether the call delivered an index that the pending entry of its key
\* already stored, and the entry's total and count before the call
Redo(d, key, i, n, chunk) ==
    IF key \in DOMAIN d /\ i \in DOMAIN d[key].chunks
    THEN [hit |-> TRUE, idx |-> i, chunk |-> chunk, tot |-> n,
          tot0 |-> d[key].tot, cnt0 |-> Cardinality(DOMAIN d[key].chunks)]
    ELSE NoRedo

CallRecord(op, d, key, i, n, chunk, how, text) ==
    LET msg == Inserted(d, key, i, n, chunk)
        full == Cardinality(DOMAIN msg.chunks) = n
    IN [op |-> op, kind |-> how, key |-> key, payload |-> text,
        full |-> full, stored |-> IF full THEN msg.chunks ELSE <<>>,
        redo |-> Redo(d, key, i, n, chunk),
        cnt |-> Cardinality(DOMAIN msg.chunks),
        prev |-> <<"none", <<>>>>, clobber |-> FALSE, diskKept |-> TRUE]

AddFrag(key, i, n, chunk) ==
    LET r == AddFragResult(messages, key, i, n, chunk) IN
    /\ rxCalls < MaxRxCalls
    /\ rxCalls' = rxCalls + 1
    /\ messages' = r.map
    /\ rxRet' = [CallRecord("add_frag", messages, key, i, n, chunk, r.kind, r.payload)
                    EXCEPT !.prev = <<rxRet.kind, rxRet.key>>]
    /\ UNCHANGED <<files, disk>>
    /\ UNCHANGED <<txVars, permVars, auxVars>>

(***************************************************************************)
(* base64.b64decode, and FileChunkAssembler.add_chunk                      *)
(***************************************************************************)
\* A base64 character is its 6-bit value 0..63; Pad is '=', NonAlpha any
\* character outside the alphabet.  A byte is 0..255.
Pad == 64
NonAlpha == 65

\* binascii.a2b_base64 (not strict): characters outside the alphabet are
\* skipped, a pad sequence that completes a quad ends the input, and input
\* that ends inside a quad is an error
RECURSIVE B64Scan(_, _, _, _, _, _)
B64Scan(s, i, quad, pads, left, out) ==
    IF i > Len(s)
    THEN IF quad # 0 THEN [ok |-> FALSE, bytes |-> <<>>]
                     ELSE [ok |-> TRUE, bytes |-> out]
    ELSE LET c == s[i] IN
         IF c = Pad
         THEN IF quad >= 2 /\ quad + pads + 1 >= 4
              THEN [ok |-> TRUE, bytes |-> out]
              ELSE B64Scan(s, i + 1, quad, IF quad >= 2 THEN pads + 1 ELSE pads,
                           left, out)
         ELSE IF c > 63
         THEN B64Scan(s, i + 1, quad, pads, left, out)
         ELSE CASE quad = 0 -> B64Scan(s, i + 1, 1, 0, c, out)
                [] quad = 1 -> B64Scan(s, i + 1, 2, 0, c % 16,
                                       Append(out, left * 4 + c \div 16))
                [] quad = 2 -> B64Scan(s, i + 1, 3, 0, c % 4,
                                       Append(out, left * 16 + c \div 4))
                [] OTHER    -> B64Scan(s, i + 1, 0, 0, 0,
                                       Append(out, left * 64 + c))

B64Decode(s) == B64Scan(s, 1, 0, 0, 0, <<>>)

\* transmitted file names as pathlib splits them
FileNames == {[parent |-> "", stem |-> "test", suffix |-> ".txt"],
              [parent |-> "", stem |-> "data", suffix |-> ".bin"]}

\* f"{p.stem}_rx{p.suffix}" under out_dir
StampedName(f) == <<f.stem, "_rx", f.suffix>>

\* chunk texts: "SGVs", "bG8=", and "S" (no base64 text ends after one character)
B64Chunks == {<<18, 6, 21, 44>>, <<27, 6, 60, Pad>>, <<18>>}

\* a bug that deletes the pending entry only after a successful decode
AddChunkDelAfterDecode(d, dk, f, i, n, chunk) ==
    LET entry == Inserted(d, f, i, n, chunk)
        d1 == Put(d, f, entry)
    IN  IF IsComplete(entry.chunks, entry.tot)
        THEN IF HasRange(entry.chunks, entry.tot)
             THEN LET raw == B64Decode(JoinRange(entry.chunks, entry.tot)) IN
                  IF raw.ok
                  THEN [map |-> Del(d1, f), disk |-> Put(dk, StampedName(f), raw.bytes),
                        kind |-> "written", payload |-> raw.bytes]
                  ELSE [map |-> d1, disk |-> dk,
                        kind |-> "decode_error", payload |-> <<>>]
             ELSE [map |-> d1, disk |-> dk, kind |-> "KeyError", payload |-> <<>>]
        ELSE [map |-> d1, disk |-> dk, kind |-> "None", payload |-> <<>>]

\* add_chunk: the new pending map, the new out_dir, and how the call ended
AddChunkResult(d, dk, f, i, n, chunk) ==
    LET entry == Inserted(d, f, i, n, chunk)
        d1 == Put(d, f, entry)
    IN  IF IsComplete(entry.chunks, entry.tot)
        THEN IF HasRange(entry.chunks, entry.tot)
             THEN LET raw == B64Decode(JoinRange(entry.chunks, entry.tot)) IN
                  IF raw.ok
                  THEN [map |-> Del(d1, f), disk |-> Put(dk, StampedName(f), raw.bytes),
                        kind |-> "written", payload |-> raw.bytes]
                  ELSE [map |-> Del(d1, f), disk |-> dk,
                        kind |-> "decode_error", payload |-> <<>>]
             ELSE [map |-> d1, disk |-> dk, kind |-> "KeyError", payload |-> <<>>]
        ELSE [map |-> d1, disk |-> dk, kind |-> "None", payload |-> <<>>]

AddChunk(f, i, n, chunk) ==
    LET r == AddChunkResult(files, disk, f, i, n, chunk) IN
    /\ rxCalls < MaxRxCalls
    /\ rxCalls' = rxCalls + 1
    /\ files' = r.map
    /\ disk' = r.disk
    /\ rxRet' = [CallRecord("add_chunk", files, f, i, n, chunk, r.kind, r.payload)
                    EXCEPT !.prev = <<rxRet.kind, rxRet.key>>,
                           !.clobber = r.kind = "written" /\ StampedName(f) \in DOMAIN disk,
                           !.diskKept = r.disk = disk]
    /\ UNCHANGED messages
    /\ UNCHANGED <<txVars, permVars, auxVars>>

(***************************************************************************)
(* Text on the wire.  A character is a number: a character of the base64   *)
(* alphabet is its 6-bit value, '=' is Pad, and every other character has  *)
(* a code above Pad.                                                       *)
(***************************************************************************)
Alphabet ==
    <<"A", "B", "C", "D", "E", "F", "G", "H", "I", "J", "K", "L", "M",
      "N", "O", "P", "Q", "R", "S", "T", "U", "V", "W", "X", "Y", "Z",
      "a", "b", "c", "d", "e", "f", "g", "h", "i", "j", "k", "l", "m",
      "n", "o", "p", "q", "r", "s", "t", "u", "v", "w", "x", "y", "z",
      "0", "1", "2", "3", "4", "5", "6", "7", "8", "9", "+", "/", "=",
      "~", ":", ".", "_", ",", "[", "]", " ", "-", "(", ")">>

Ord(c) == (CHOOSE k \in 1..Len(Alphabet) : Alphabet[k] = c) - 1

\* the string whose characters are listed in cs
Str(cs) == [k \in 1..Len(cs) |-> Ord(cs[k])]

Colon == Ord(":")
Comma == Ord(",")
Dot == Ord(".")
Slash == Ord("/")
Space == Ord(" ")
Minus == Ord("-")
Plus == Ord("+")
Zero == Ord("0")

\* s.startswith(p)
StartsWith(s, p) == Len(s) >= Len(p) /\ SubSeq(s, 1, Len(p)) = p

\* `m in s`
HasSub(s, m) ==
    \E k \in 1..(Len(s) - Len(m) + 1) : SubSeq(s, k, k + Len(m) - 1) = m

\* s.split(sep, maxsplit); maxsplit = -1 splits at every sep
RECURSIVE Split(_, _, _)
Split(s, sep, maxsplit) ==
    LET hits == {k \in 1..Len(s) : s[k] = sep} IN
    IF maxsplit = 0 \/ hits = {}
    THEN <<s>>
    ELSE LET k == CHOOSE h \in hits : \A g \in hits : h <= g
         IN <<SubSeq(s, 1, k - 1)>>
                \o Split(SubSeq(s, k + 1, Len(s)), sep, maxsplit - 1)

\* s.strip(), for the whitespace of the model
RECURSIVE LStrip(_)
LStrip(s) == IF s # <<>> /\ s[1] = Space THEN LStrip(Tail(s)) ELSE s

RECURSIVE RStrip(_)
RStrip(s) ==
    IF s # <<>> /\ s[Len(s)] = Space THEN RStrip(SubSeq(s, 1, Len(s) - 1)) ELSE s

Strip(s) == RStrip(LStrip(s))

IsDigit(c) == c \in Zero..(Zero + 9)

RECURSIVE DigitsValue(_)
DigitsValue(s) ==
    IF s = <<>> THEN 0
    ELSE 10 * DigitsValue(SubSeq(s, 1, Len(s) - 1)) + (s[Len(s)] - Zero)

\* int(s): surrounding whitespace, an optional sign, decimal digits; anything
\* else is a ValueError
ParseInt(s) ==
    LET t == Strip(s)
        signed == t # <<>> /\ t[1] \in {Minus, Plus}
        body == IF signed THEN Tail(t) ELSE t
    IN  IF body # <<>> /\ \A k \in 1..Len(body) : IsDigit(body[k])
        THEN [ok |-> TRUE,
              val |-> IF signed /\ t[1] = Minus THEN 0 - DigitsValue(body)
                      ELSE DigitsValue(body)]
        ELSE [ok |-> FALSE, val |-> 0]

\* str(n) for n >= 0
RECURSIVE IntToStr(_)
IntToStr(n) ==
    IF n < 10 THEN <<Zero + n>> ELSE IntToStr(n \div 10) \o <<Zero + (n % 10)>>

\* base64.b64encode(raw).decode("ascii")
RECURSIVE B64Encode(_)
B64Encode(b) ==
    CASE Len(b) = 0 -> <<>>
      [] Len(b) = 1 -> <<b[1] \div 4, (b[1] % 4) * 16, Pad, Pad>>
      [] Len(b) = 2 -> <<b[1] \div 4, (b[1] % 4) * 16 + b[2] \div 16,
                         (b[2] % 16) * 4, Pad>>
      [] OTHER -> <<b[1] \div 4, (b[1] % 4) * 16 + b[2] \div 16,
                    (b[2] % 16) * 4 + b[3] \div 64, b[3] % 64>>
                      \o B64Encode(SubSeq(b, 4, Len(b)))

\* a bug that drops the last, shorter chunk
ChunkSplitWhole(s, size) ==
    [k \in 0..((Len(s) \div size) - 1) |->
        SubSeq(s, k * size + 1, (k + 1) * size)]

\* send_file: [b64[i:i + size] for i in range(0, len(b64), size)], by index
ChunkSplit(s, size) ==
    [k \in 0..(((Len(s) + size - 1) \div size) - 1) |->
        SubSeq(s, k * size + 1,
               IF (k + 1) * size < Len(s) THEN (k + 1) * size ELSE Len(s))]

FileChunkTag == Str(<<"F", "I", "L", "E", "C", "H", "U", "N", "K", ":">>)
FileTag == Str(<<"F", "I", "L", "E", ":">>)

\* send_file: f"FILECHUNK:{tx_name}:{idx}:{tot}:{chunk}", as the peer delivers it
FileChunkPayload(name, i, n, chunk) ==
    FileChunkTag \o name \o <<Colon>> \o IntToStr(i) \o <<Colon>>
        \o IntToStr(n) \o <<Colon>> \o chunk

\* Path(fname): the directory part, p.stem and p.suffix
PathOf(fname) ==
    LET slashes == {k \in 1..Len(fname) : fname[k] = Slash}
        cut == IF slashes = {} THEN 0
               ELSE CHOOSE h \in slashes : \A g \in slashes : g <= h
        base == SubSeq(fname, cut + 1, Len(fname))
        dots == {k \in 2..(Len(base) - 1) : base[k] = Dot}
        d == IF dots = {} THEN Len(base) + 1
             ELSE CHOOSE h \in dots : \A g \in dots : g <= h
    IN  [parent |-> SubSeq(fname, 1, cut),
         stem |-> SubSeq(base, 1, d - 1),
         suffix |-> SubSeq(base, d, Len(base))]

\* handle_full_payload: the new pending files, the new out_dir, how it ended
HandleFullPayload(fl, dk, payload) ==
    IF StartsWith(payload, FileChunkTag)
    THEN LET parts == Split(payload, Colon, 4)
             i == IF Len(parts) = 5 THEN ParseInt(parts[3]) ELSE [ok |-> FALSE, val |-> 0]
             n == IF Len(parts) = 5 THEN ParseInt(parts[4]) ELSE [ok |-> FALSE, val |-> 0]
         IN  IF i.ok /\ n.ok
             THEN LET r == AddChunkResult(fl, dk, PathOf(parts[2]), i.val, n.val,
                                          parts[5])
                  IN [files |-> r.map, disk |-> r.disk, kind |-> r.kind]
             ELSE [files |-> fl, disk |-> dk, kind |-> "invalid"]
    ELSE IF StartsWith(payload, FileTag)
    THEN LET parts == Split(payload, Colon, 2) IN
         IF Len(parts) # 3
         THEN [files |-> fl, disk |-> dk, kind |-> "invalid"]
         ELSE LET raw == B64Decode(parts[3]) IN
              IF raw.ok
              THEN [files |-> fl,
                    disk |-> Put(dk, StampedName(PathOf(parts[2])), raw.bytes),
                    kind |-> "written"]
              ELSE [files |-> fl, disk |-> dk, kind |-> "decode_error"]
    ELSE [files |-> fl, disk |-> dk, kind |-> "printed"]

(***************************************************************************)
(* Round trip: send_file's FILECHUNK payloads of one file, delivered to    *)
(* handle_full_payload in a permuted order.                                *)
(***************************************************************************)
\* b"Hello"
Hello == <<72, 101, 108, 108, 111>>

TripByteValues == {0, 101, 255}

TripPayloads ==
    {Hello} \cup UNION {[1..l -> TripByteValues] : l \in 1..MaxBytes}

\* tx_name: "test.txt" and "README"
TestTxt == Str(<<"t", "e", "s", "t", ".", "t", "x", "t">>)
Readme == Str(<<"R", "E", "A", "D", "M", "E">>)
TripNames == {TestTxt, Readme}

\* chunks = [...]; tot = len(chunks)
TripChunks == ChunkSplit(B64Encode(tripBytes), tripSize)
TripTotal == Cardinality(DOMAIN TripChunks)

\* a transfer of raw bytes under name, chunk_size_chars = size, and the order
\* in which its payloads will arrive
TripStart(name, raw, size, order) ==
    /\ tripSize = 0
    /\ tripName' = name
    /\ tripBytes' = raw
    /\ tripSize' = size
    /\ tripOrder' = order
    /\ tripPos' = 0
    /\ UNCHANGED <<txVars, rxVars, permVars, sessVars, lineVars, meshVars, extVars>>

\* the next payload of the order reaches handle_full_payload
TripDeliver ==
    /\ tripSize > 0
    /\ tripPos < TripTotal
    /\ LET i == tripOrder[tripPos + 1]
           r == HandleFullPayload(files, disk,
                    FileChunkPayload(tripName, i, TripTotal, TripChunks[i]))
       IN /\ files' = r.files
          /\ disk' = r.disk
    /\ tripPos' = tripPos + 1
    /\ UNCHANGED <<tripName, tripBytes, tripSize, tripOrder>>
    /\ UNCHANGED <<messages, rxRet, rxCalls>>
    /\ UNCHANGED <<txVars, permVars, sessVars, lineVars, meshVars, extVars>>

(***************************************************************************)
(* add_frag fed all fragments of one key, in a permuted order.             *)
(***************************************************************************)
PermKey == <<"A", 1>>

DeliveryOrders(n) ==
    {p \in [1..n -> 0..(n - 1)] : \A a, b \in 1..n : p[a] = p[b] => a = b}

\* choose the total, the delivery order and the chunk text of every index
PermStart(n, order, texts) ==
    /\ permTotal = 0
    /\ permTotal' = n
    /\ permOrder' = order
    /\ permTexts' = texts
    /\ permPos' = 0
    /\ permRets' = <<>>
    /\ UNCHANGED <<txVars, rxVars, auxVars>>

\* deliver the next fragment of the order to add_frag
PermDeliver ==
    /\ permPos < permTotal
    /\ LET i == permOrder[permPos + 1]
           r == AddFragResult(messages, PermKey, i, permTotal, permTexts[i])
       IN /\ messages' = r.map
          /\ permRets' = Append(permRets, [kind |-> r.kind, payload |-> r.payload])
    /\ permPos' = permPos + 1
    /\ UNCHANGED <<permTotal, permOrder, permTexts, files, disk, rxRet, rxCalls>>
    /\ UNCHANGED <<txVars, auxVars>>

(***************************************************************************)
(* LoRaSerialSession: the sender side.                                     *)
(***************************************************************************)
\* _consume_tx_result, timeout branch: the result returned when wait() is False
TimeoutResult == TxResult(FALSE, TimeoutReason, {})

\* _consume_tx_result, locked branch: r = self._tx_last or TxResult(False, "unknown")
ConsumeResult(last) ==
    IF last.some THEN last ELSE TxResult(FALSE, "unknown", {})

\* a bug that resends the same chunk after a success
AfterChunkRepeat(i, n, ok) ==
    IF ~ok THEN [pc |-> "idle", idx |-> i, ret |-> "false"]
    ELSE IF i + 1 < n THEN [pc |-> "w_assert", idx |-> i, ret |-> "none"]
    ELSE [pc |-> "idle", idx |-> i, ret |-> "true"]

\* a bug that goes on with the next chunk after a failed one
AfterChunkNoAbort(i, n, ok) ==
    IF i + 1 < n THEN [pc |-> "w_assert", idx |-> i + 1, ret |-> "none"]
    ELSE [pc |-> "idle", idx |-> i, ret |-> IF ok THEN "true" ELSE "false"]

\* a bug that reports success when the last chunk failed
AfterChunkOptimistic(i, n, ok) ==
    IF ~ok /\ i + 1 < n THEN [pc |-> "idle", idx |-> i, ret |-> "false"]
    ELSE IF i + 1 < n THEN [pc |-> "w_assert", idx |-> i + 1, ret |-> "none"]
    ELSE [pc |-> "idle", idx |-> i, ret |-> "true"]

\* send_file, the loop body after r = _consume_tx_result(...): `if not r.ok:
\* return False`, else the next chunk, or `return True` after the last one.
\* send_raw_line(wait_done=True) is the case n = 1: `return r.ok`.
AfterChunk(i, n, ok) ==
    IF ~ok THEN [pc |-> "idle", idx |-> i, ret |-> "false"]
    ELSE IF i + 1 < n THEN [pc |-> "w_assert", idx |-> i + 1, ret |-> "none"]
    ELSE [pc |-> "idle", idx |-> i, ret |-> "true"]

\* the sender takes result r for its current chunk
TakeResult(t, r, via) ==
    LET nx == AfterChunk(idx[t], tot[t], r.ok) IN
    /\ pc' = [pc EXCEPT ![t] = nx.pc]
    /\ idx' = [idx EXCEPT ![t] = nx.idx]
    /\ ret' = [ret EXCEPT ![t] = nx.ret]
    /\ acks' = [acks EXCEPT ![t] = IF r.ok THEN @ + 1 ELSE @]
    /\ failedAt' = [failedAt EXCEPT ![t] = IF r.ok THEN @ ELSE idx[t]]
    /\ lastRes' = [lastRes EXCEPT ![t] =
                      [ok |-> r.ok, reason |-> r.reason, via |-> via,
                       stale |-> t \in r.staleFor]]

\* a call of send_file whose payload splits into n chunks (n = 0: empty file)
StartSendFile(t, n) ==
    /\ pc[t] = "idle"
    /\ calls < MaxCalls
    /\ calls' = calls + 1
    /\ kind' = [kind EXCEPT ![t] = "file"]
    /\ tot' = [tot EXCEPT ![t] = n]
    /\ idx' = [idx EXCEPT ![t] = 0]
    /\ sent' = [sent EXCEPT ![t] = <<>>]
    /\ acks' = [acks EXCEPT ![t] = 0]
    /\ failedAt' = [failedAt EXCEPT ![t] = -1]
    /\ lastRes' = [lastRes EXCEPT ![t] = NoTaken]
    /\ pc' = [pc EXCEPT ![t] = IF n = 0 THEN "idle" ELSE "w_assert"]
    /\ ret' = [ret EXCEPT ![t] = IF n = 0 THEN "true" ELSE "none"]
    /\ UNCHANGED <<rxVars, permVars, auxVars>>
    /\ UNCHANGED <<tx_event, tx_last, tx_lock, rdPc, rdLine, rdStale, rxq, mcuPending>>

\* a call of send_raw_line(line, wait_done)
StartRawLine(t, wait_done) ==
    /\ pc[t] = "idle"
    /\ calls < MaxCalls
    /\ calls' = calls + 1
    /\ kind' = [kind EXCEPT ![t] = IF wait_done THEN "rawwait" ELSE "raw"]
    /\ tot' = [tot EXCEPT ![t] = 1]
    /\ idx' = [idx EXCEPT ![t] = 0]
    /\ sent' = [sent EXCEPT ![t] = <<>>]
    /\ acks' = [acks EXCEPT ![t] = 0]
    /\ failedAt' = [failedAt EXCEPT ![t] = -1]
    /\ lastRes' = [lastRes EXCEPT ![t] = NoTaken]
    /\ pc' = [pc EXCEPT ![t] = "w_assert"]
    /\ ret' = [ret EXCEPT ![t] = "none"]
    /\ UNCHANGED <<rxVars, permVars, auxVars>>
    /\ UNCHANGED <<tx_event, tx_last, tx_lock, rdPc, rdLine, rdStale, rxq, mcuPending>>

\* what self.ser.write / self.ser.flush raise: nothing on an open port,
\* serial.SerialException (PortNotOpenError) on a closed one, AttributeError
\* when close() has set self.ser = None after the assert
PortError(s) ==
    CASE s = "open" -> "none"
      [] s = "closed" -> "SerialException"
      [] OTHER -> "AttributeError"

\* _write: assert self.ser is not None; the AssertionError leaves the call
WriteAssert(t) ==
    /\ pc[t] = "w_assert"
    /\ pc' = [pc EXCEPT ![t] = IF ser = "none" THEN "idle" ELSE "w_write"]
    /\ ret' = [ret EXCEPT ![t] = IF ser = "none" THEN "AssertionError" ELSE @]
    /\ UNCHANGED <<rxVars, permVars, auxVars>>
    /\ UNCHANGED <<tx_event, tx_last, tx_lock, kind, idx, tot, calls, sent,
                   acks, failedAt, lastRes, rdPc, rdLine, rdStale, rxq, mcuPending>>

\* _write: self.ser.write(data), the line of chunk idx.  Every sentinel already
\* read by the reader (in its hand, or stored in _tx_last) predates this line.
WriteData(t) ==
    /\ pc[t] = "w_write"
    /\ IF PortError(ser) = "none"
       THEN /\ pc' = [pc EXCEPT ![t] = "w_flush"]
            /\ sent' = [sent EXCEPT ![t] = Append(@, idx[t])]
            /\ tx_last' = IF tx_last.some
                          THEN [tx_last EXCEPT !.staleFor = @ \cup {t}]
                          ELSE tx_last
            /\ rdStale' = IF rdLine # "" THEN rdStale \cup {t} ELSE rdStale
            /\ UNCHANGED ret
       ELSE /\ pc' = [pc EXCEPT ![t] = "idle"]
            /\ ret' = [ret EXCEPT ![t] = PortError(ser)]
            /\ UNCHANGED <<sent, tx_last, rdStale>>
    /\ UNCHANGED <<rxVars, permVars, auxVars>>
    /\ UNCHANGED <<tx_event, tx_lock, kind, idx, tot, calls,
                   acks, failedAt, lastRes, rdPc, rdLine, rxq, mcuPending>>

\* _write: self.ser.flush(); the MCU now has the line (write() handed it to
\* the port).  send_raw_line with wait_done=False returns True here.
WriteFlush(t) ==
    /\ pc[t] = "w_flush"
    /\ mcuPending' = mcuPending + 1
    /\ IF PortError(ser) = "none"
       THEN /\ pc' = [pc EXCEPT ![t] = IF kind[t] = "raw" THEN "idle" ELSE "wait"]
            /\ ret' = [ret EXCEPT ![t] = IF kind[t] = "raw" THEN "true" ELSE @]
       ELSE /\ pc' = [pc EXCEPT ![t] = "idle"]
            /\ ret' = [ret EXCEPT ![t] = PortError(ser)]
    /\ UNCHANGED <<rxVars, permVars, auxVars>>
    /\ UNCHANGED <<tx_event, tx_last, tx_lock, kind, idx, tot, calls, sent,
                   acks, failedAt, lastRes, rdPc, rdLine, rdStale, rxq>>

\* _consume_tx_result: self._tx_event.wait(timeout) returns True
WaitSet(t) ==
    /\ pc[t] = "wait"
    /\ tx_event
    /\ pc' = [pc EXCEPT ![t] = "lock"]
    /\ UNCHANGED <<rxVars, permVars, auxVars>>
    /\ UNCHANGED <<tx_event, tx_last, tx_lock, kind, idx, tot, ret, calls, sent,
                   acks, failedAt, lastRes, rdPc, rdLine, rdStale, rxq, mcuPending>>

\* a bug: self._tx_event.wait() without a timeout never returns on an unset
\* event
WaitNoTimeout(t) ==
    /\ pc[t] = "wait"
    /\ FALSE
    /\ UNCHANGED vars

\* _consume_tx_result: the timeout elapses with the event unset
WaitTimeout(t) ==
    /\ pc[t] = "wait"
    /\ ~tx_event
    /\ TakeResult(t, TimeoutResult, "timeout")
    /\ UNCHANGED <<rxVars, permVars, auxVars>>
    /\ UNCHANGED <<tx_event, tx_last, tx_lock, kind, tot, calls, sent,
                   rdPc, rdLine, rdStale, rxq, mcuPending>>

\* _consume_tx_result: with self._tx_lock (acquire)
ConsumeLock(t) ==
    /\ pc[t] = "lock"
    /\ tx_lock = "none"
    /\ tx_lock' = t
    /\ pc' = [pc EXCEPT ![t] = "crit"]
    /\ UNCHANGED <<rxVars, permVars, auxVars>>
    /\ UNCHANGED <<tx_event, tx_last, kind, idx, tot, ret, calls, sent,
                   acks, failedAt, lastRes, rdPc, rdLine, rdStale, rxq, mcuPending>>

\* _consume_tx_result: the locked block, and the caller's use of the result
Consume(t) ==
    /\ pc[t] = "crit"
    /\ tx_lock = t
    /\ tx_last' = NoResult
    /\ tx_event' = FALSE
    /\ tx_lock' = "none"
    /\ TakeResult(t, ConsumeResult(tx_last), "signal")
    /\ UNCHANGED <<rxVars, permVars, auxVars>>
    /\ UNCHANGED <<kind, tot, calls, sent, rdPc, rdLine, rdStale, rxq, mcuPending>>

(***************************************************************************)
(* LoRaSerialSession: the reader thread, and the MCU.                      *)
(***************************************************************************)
\* `while not self._stop.is_set()`, evaluated when an iteration ends: the
\* reader is back in _readline ("read") or has left the loop
LoopHead == IF stopFlag THEN "exited" ELSE "read"

\* _reader_loop: line = self._readline(); a line with a completion marker is
\* signalled, any other line goes to _handle_rx_line and leaves the slot alone
ReaderRead ==
    /\ rdPc = "read"
    /\ ser = "open"
    /\ rxq # <<>>
    /\ rdLine' = IF IsDoneLine(Head(rxq)) \/ IsFailLine(Head(rxq)) THEN Head(rxq) ELSE ""
    /\ rxq' = Tail(rxq)
    /\ rdStale' = {}
    /\ rdPc' = IF IsDoneLine(Head(rxq)) \/ IsFailLine(Head(rxq)) THEN "lock" ELSE LoopHead
    /\ UNCHANGED <<rxVars, permVars, auxVars>>
    /\ UNCHANGED <<tx_event, tx_last, tx_lock, pc, kind, idx, tot, ret, calls,
                   sent, acks, failedAt, lastRes, mcuPending>>

\* _signal_tx: with self._tx_lock (acquire)
ReaderLock ==
    /\ rdPc = "lock"
    /\ tx_lock = "none"
    /\ tx_lock' = "reader"
    /\ rdPc' = "signal"
    /\ UNCHANGED <<rxVars, permVars, auxVars>>
    /\ UNCHANGED <<tx_event, tx_last, pc, kind, idx, tot, ret, calls, sent, acks,
                   failedAt, lastRes, rdLine, rdStale, rxq, mcuPending>>

\* a _signal_tx that sets the event without storing the result
SignalForNothing(line) == NoResult

\* the result _reader_loop signals for a sentinel line
SignalFor(line) ==
    IF IsDoneLine(line) THEN TxResult(TRUE, "TX DONE", rdStale)
    ELSE TxResult(FALSE, line, rdStale)

\* _signal_tx: the locked block
ReaderSignal ==
    /\ rdPc = "signal"
    /\ tx_lock = "reader"
    /\ tx_last' = SignalFor(rdLine)
    /\ tx_event' = TRUE
    /\ tx_lock' = "none"
    /\ rdLine' = ""
    /\ rdStale' = {}
    /\ rdPc' = LoopHead
    /\ UNCHANGED <<rxVars, permVars, auxVars>>
    /\ UNCHANGED <<pc, kind, idx, tot, ret, calls, sent, acks, failedAt, lastRes,
                   rxq, mcuPending>>

\* the reader has read no line yet
NoLine == [line |-> <<>>, cls |-> "none", kind |-> "none", dispatched |-> FALSE,
           routed |-> FALSE, payload |-> <<>>, signal |-> "none",
           kept |-> TRUE, sigKept |-> TRUE]

\* _reader_loop: _readline returned "" (the 1 s read timeout, or the exception
\* of a closed port) and the loop test finds the stop flag set
ReaderStop ==
    /\ rdPc = "read"
    /\ stopFlag
    /\ rdPc' = "exited"
    /\ UNCHANGED <<rxVars, permVars, auxVars>>
    /\ UNCHANGED <<tx_event, tx_last, tx_lock, pc, kind, idx, tot, ret, calls, sent,
                   acks, failedAt, lastRes, rdLine, rdStale, rxq, mcuPending>>

\* _readline: `assert self.ser is not None` fails once close() has set
\* self.ser = None; the AssertionError ends the reader thread
ReaderAssertFails ==
    /\ rdPc = "read"
    /\ ser = "none"
    /\ rdPc' = "dead"
    /\ UNCHANGED <<rxVars, permVars, auxVars>>
    /\ UNCHANGED <<tx_event, tx_last, tx_lock, pc, kind, idx, tot, ret, calls, sent,
                   acks, failedAt, lastRes, rdLine, rdStale, rxq, mcuPending>>

(***************************************************************************)
(* LoRaSerialSession._reader_loop fed whole lines: classification,         *)
(* _handle_rx_line, the reassemblers and handle_full_payload.              *)
(***************************************************************************)
DoneMarker == Str(<<"[", "T", "X", " ", "D", "O", "N", "E", "]">>)
AbortMarker == Str(<<"[", "A", "B", "O", "R", "T", "]">>)
FailedMarker == Str(<<"T", "X", " ", "F", "A", "I", "L", "E", "D">>)
MsgTag == Str(<<"M", "S", "G", ",">>)
FragTag == Str(<<"F", "R", "A", "G", ",">>)

\* _readline: self.ser.readline().decode(errors="ignore").strip()
ReadLine(raw) == Strip(raw)

\* a bug that tests the failure markers before [TX DONE]
LineClassFailFirst(line) ==
    IF line = <<>> THEN "empty"
    ELSE IF HasSub(line, AbortMarker) \/ HasSub(line, FailedMarker) THEN "fail"
    ELSE IF HasSub(line, DoneMarker) THEN "done"
    ELSE "rx"

\* _reader_loop: `if not line`, `if "[TX DONE]" in line`, `if "[ABORT]" in
\* line or "TX FAILED" in line`, else _handle_rx_line
LineClass(line) ==
    IF line = <<>> THEN "empty"
    ELSE IF HasSub(line, DoneMarker) THEN "done"
    ELSE IF HasSub(line, AbortMarker) \/ HasSub(line, FailedMarker) THEN "fail"
    ELSE "rx"

\* outcome of _handle_rx_line when it reaches no reassembler
Unrouted(ms, fl, dk, how) ==
    [messages |-> ms, files |-> fl, disk |-> dk, kind |-> how,
     routed |-> FALSE, payload |-> <<>>]

\* the outcome h of handle_full_payload(text, self.file_asm), as the outcome
\* of _handle_rx_line
RoutedAs(ms, h, text) ==
    [messages |-> ms, files |-> h.files, disk |-> h.disk, kind |-> h.kind,
     routed |-> TRUE, payload |-> text]

\* handle_full_payload(text, self.file_asm) called from _handle_rx_line
Routed(ms, fl, dk, text) == RoutedAs(ms, HandleFullPayload(fl, dk, text), text)

\* _handle_rx_line: the new maps and out_dir, how the call ended (kind
\* "KeyError": the exception leaves the call), and the payload it handed to
\* handle_full_payload, if any
HandleRxLine(ms, fl, dk, line) ==
    IF StartsWith(line, MsgTag)
    THEN LET parts == Split(line, Comma, 5) IN
         IF Len(parts) >= 6 THEN Routed(ms, fl, dk, parts[6])
         ELSE Unrouted(ms, fl, dk, "dropped")
    ELSE IF StartsWith(line, FragTag)
    THEN LET parts == Split(line, Comma, 7) IN
         IF Len(parts) >= 8
         THEN LET seq == ParseInt(parts[3])
                  i == ParseInt(parts[4])
                  n == ParseInt(parts[5])
              IN  IF seq.ok /\ i.ok /\ n.ok
                  THEN LET r == AddFragResult(ms, <<parts[2], seq.val>>, i.val,
                                              n.val, parts[8])
                       IN  IF r.kind = "payload"
                           THEN Routed(r.map, fl, dk, r.payload)
                           ELSE Unrouted(r.map, fl, dk, r.kind)
                  ELSE Unrouted(ms, fl, dk, "bad_ints")
         ELSE Unrouted(ms, fl, dk, "dropped")
    ELSE Unrouted(ms, fl, dk, "ignored")

\* _reader_loop: a line with no marker goes to _handle_rx_line
Dispatch(ms, fl, dk, line, cls) ==
    IF cls = "rx" THEN HandleRxLine(ms, fl, dk, line)
    ELSE Unrouted(ms, fl, dk, "none")

\* _reader_loop: the result _signal_tx stores for a marker line; the reason of
\* a failure result is the line itself (kept in rdLog.line)
SignalOf(cls, last) ==
    CASE cls = "done" -> TxResult(TRUE, "TX DONE", {})
      [] cls = "fail" -> TxResult(FALSE, "line", {})
      [] OTHER -> last

\* one iteration of _reader_loop on the raw line the channel delivers
ReaderLine(raw) ==
    /\ rdPc = "read"
    /\ ser = "open"
    /\ rdCount < MaxLines
    /\ rdCount' = rdCount + 1
    /\ \E line \in {ReadLine(raw)} :
       \E cls \in {LineClass(line)} :
       \E h \in {Dispatch(messages, files, disk, line, cls)} :
          /\ messages' = h.messages
          /\ files' = h.files
          /\ disk' = h.disk
          /\ tx_last' = SignalOf(cls, tx_last)
          /\ tx_event' = (tx_event \/ cls \in {"done", "fail"})
          /\ rdPc' = IF h.kind = "KeyError" THEN "dead" ELSE LoopHead
          /\ rdLog' = [line |-> line, cls |-> cls, kind |-> h.kind,
                       dispatched |-> cls = "rx",
                       routed |-> h.routed, payload |-> h.payload,
                       signal |-> CASE cls = "done" -> "ok"
                                    [] cls = "fail" -> "fail"
                                    [] OTHER -> "none",
                       kept |-> /\ h.messages = messages
                                /\ h.files = files
                                /\ h.disk = disk,
                       sigKept |-> /\ SignalOf(cls, tx_last) = tx_last
                                   /\ (tx_event \/ cls \in {"done", "fail"}) = tx_event]
    /\ UNCHANGED <<rxRet, rxCalls>>
    /\ UNCHANGED <<permVars, sessVars, tripVars, meshVars, extVars>>
    /\ UNCHANGED <<tx_lock, pc, kind, idx, tot, ret, calls, sent, acks,
                   failedAt, lastRes, rdLine, rdStale, rxq, mcuPending>>

\* lines the channel may deliver
\* "[TX DONE]"
LineDone ==
    Str(<<"[", "T", "X", " ", "D", "O", "N", "E", "]">>)

\* "[ABORT] no ack"
LineAbort ==
    Str(<<"[", "A", "B", "O", "R", "T", "]", " ", "n", "o", " ", "a", "c", "k">>)

\* "TX FAILED"
LineFailed ==
    Str(<<"T", "X", " ", "F", "A", "I", "L", "E", "D">>)

\* "[TX DONE] [ABORT]"
LineDoneAbort ==
    Str(<<"[", "T", "X", " ", "D", "O", "N", "E", "]", " ", "[", "A", "B", "O",
          "R", "T", "]">>)

\* "MSG,A,1,-50,10,hi"
LineMsg ==
    Str(<<"M", "S", "G", ",", "A", ",", "1", ",", "-", "5", "0", ",", "1", "0",
          ",", "h", "i">>)

\* "MSG,A,1,-50,10,a,b [TX DONE]"
LineMsgMarker ==
    Str(<<"M", "S", "G", ",", "A", ",", "1", ",", "-", "5", "0", ",", "1", "0",
          ",", "a", ",", "b", " ", "[", "T", "X", " ", "D", "O", "N", "E", "]">>)

\* "MSG,A,1,-50,10,FILECHUNK:test.txt:0:1:SGVs"
LineMsgChunk ==
    Str(<<"M", "S", "G", ",", "A", ",", "1", ",", "-", "5", "0", ",", "1", "0",
          ",", "F", "I", "L", "E", "C", "H", "U", "N", "K", ":", "t", "e", "s",
          "t", ".", "t", "x", "t", ":", "0", ":", "1", ":", "S", "G", "V", "s">>)

\* "MSG,A,1,-50,10,FILE:test.txt:S"
LineMsgBadFile ==
    Str(<<"M", "S", "G", ",", "A", ",", "1", ",", "-", "5", "0", ",", "1", "0",
          ",", "F", "I", "L", "E", ":", "t", "e", "s", "t", ".", "t", "x", "t",
          ":", "S">>)

\* "MSG,A,1"
LineMsgShort ==
    Str(<<"M", "S", "G", ",", "A", ",", "1">>)

\* "FRAG,A,1,0,2,-50,10,FILE:test.txt:"
LineFrag0 ==
    Str(<<"F", "R", "A", "G", ",", "A", ",", "1", ",", "0", ",", "2", ",", "-",
          "5", "0", ",", "1", "0", ",", "F", "I", "L", "E", ":", "t", "e", "s",
          "t", ".", "t", "x", "t", ":">>)

\* "FRAG,A,1,1,2,-50,10,bG8="
LineFrag1 ==
    Str(<<"F", "R", "A", "G", ",", "A", ",", "1", ",", "1", ",", "2", ",", "-",
          "5", "0", ",", "1", "0", ",", "b", "G", "8", "=">>)

\* "FRAG,A,1,1,1,-50,10,x"
LineFragOut ==
    Str(<<"F", "R", "A", "G", ",", "A", ",", "1", ",", "1", ",", "1", ",", "-",
          "5", "0", ",", "1", "0", ",", "x">>)

\* "FRAG,A,x,0,2,-50,10,ab"
LineFragBadInt ==
    Str(<<"F", "R", "A", "G", ",", "A", ",", "x", ",", "0", ",", "2", ",", "-",
          "5", "0", ",", "1", "0", ",", "a", "b">>)

\* "FRAG,a,b"
LineFragShort ==
    Str(<<"F", "R", "A", "G", ",", "a", ",", "b">>)

\* "FRAG,a,b [ABORT]"
LineFragShortMarker ==
    Str(<<"F", "R", "A", "G", ",", "a", ",", "b", " ", "[", "A", "B", "O", "R",
          "T", "]">>)

\* "boot ok"
LineBoot ==
    Str(<<"b", "o", "o", "t", " ", "o", "k">>)

\* "  "
LineBlank ==
    Str(<<" ", " ">>)

RxLines ==
    {LineDone, LineAbort, LineFailed, LineDoneAbort, LineMsg,
     LineMsgMarker, LineMsgChunk, LineMsgBadFile, LineMsgShort,
     LineFrag0, LineFrag1, LineFragOut, LineFragBadInt, LineFragShort,
     LineFragShortMarker, LineBoot, LineBlank}

(***************************************************************************)
(* LoRaSerialSession.open and LoRaSerialSession.close                      *)
(***************************************************************************)
\* open(): self.ser = serial.Serial(...), the boot lines are drained, the
\* reader thread starts.  Every caller opens a session once, right after
\* constructing it.
Open ==
    /\ ser = "none"
    /\ rdPc = "nothread"
    /\ closePc = "idle"
    /\ closes = 0
    /\ ser' = "open"
    /\ rdPc' = "read"
    /\ UNCHANGED <<rxVars, permVars, lineVars, tripVars, meshVars, extVars>>
    /\ UNCHANGED <<stopFlag, closePc, closes, closeErr>>
    /\ UNCHANGED <<tx_event, tx_last, tx_lock, pc, kind, idx, tot, ret, calls, sent,
                   acks, failedAt, lastRes, rdLine, rdStale, rxq, mcuPending>>

\* a bug: close() wakes the waiting sender by setting the completion event
CloseEventsWake(ev) == [stop |-> TRUE, tx_event |-> TRUE]

\* close(): self._stop.set() is the only Event close() touches
CloseEvents(ev) == [stop |-> TRUE, tx_event |-> ev]

\* self._thread and self._thread.is_alive()
ThreadAlive == rdPc \notin {"nothread", "exited", "dead"}

\* close(): set the stop flag; join the reader if it is alive
CloseStart ==
    /\ closePc = "idle"
    /\ closes < MaxCloses
    /\ stopFlag' = CloseEvents(tx_event).stop
    /\ tx_event' = CloseEvents(tx_event).tx_event
    /\ closePc' = IF ThreadAlive THEN "join" ELSE "ser"
    /\ UNCHANGED <<rxVars, permVars, lineVars, tripVars, meshVars, extVars>>
    /\ UNCHANGED <<ser, closes, closeErr>>
    /\ UNCHANGED <<tx_last, tx_lock, pc, kind, idx, tot, ret, calls, sent,
                   acks, failedAt, lastRes, rdPc, rdLine, rdStale, rxq, mcuPending>>

\* close(): self._thread.join(timeout=1.0) returns, the reader gone or not
CloseJoin ==
    /\ closePc = "join"
    /\ closePc' = "ser"
    /\ UNCHANGED <<rxVars, permVars, lineVars, tripVars, meshVars, extVars>>
    /\ UNCHANGED <<ser, stopFlag, closes, closeErr>>
    /\ UNCHANGED txVars

\* a bug: self.ser.close() without the `if self.ser` test
CloseSerUnguarded(s) == IF s = "open" THEN "closed" ELSE "AttributeError"

\* close(): `if self.ser: try: self.ser.close() except Exception: pass`
CloseSerResult(s) == IF s = "open" THEN "closed" ELSE s

CloseSer ==
    /\ closePc = "ser"
    /\ IF CloseSerResult(ser) = "AttributeError"
       THEN /\ closeErr' = TRUE
            /\ closePc' = "idle"
            /\ closes' = closes + 1
            /\ UNCHANGED ser
       ELSE /\ ser' = CloseSerResult(ser)
            /\ closePc' = "setnone"
            /\ UNCHANGED <<closes, closeErr>>
    /\ UNCHANGED <<rxVars, permVars, lineVars, tripVars, meshVars, extVars>>
    /\ UNCHANGED stopFlag
    /\ UNCHANGED txVars

\* close(): self.ser = None, and the call returns
CloseReturn ==
    /\ closePc = "setnone"
    /\ ser' = "none"
    /\ closePc' = "idle"
    /\ closes' = closes + 1
    /\ UNCHANGED <<rxVars, permVars, lineVars, tripVars, meshVars, extVars>>
    /\ UNCHANGED <<stopFlag, closeErr>>
    /\ UNCHANGED txVars

\* the MCU prints a status line for a line it was given
McuReply(line) ==
    /\ mcuPending > 0
    /\ mcuPending' = mcuPending - 1
    /\ rxq' = Append(rxq, line)
    /\ UNCHANGED <<rxVars, permVars, auxVars>>
    /\ UNCHANGED <<tx_event, tx_last, tx_lock, pc, kind, idx, tot, ret, calls, sent,
                   acks, failedAt, lastRes, rdPc, rdLine, rdStale>>

(***************************************************************************)
(* MeshNetworkInterface (mesh_network_interface.py): send_file and         *)
(* send_fragmented_data.                                                   *)
(***************************************************************************)
REL_NONE == 0
REL_LOW == 1
REL_MEDIUM == 2
REL_HIGH == 3
REL_CRITICAL == 4

\* reliability=None
NoLevel == -1

FILE_RELIABILITY_MAP ==
    << <<Str(<<".", "t", "x", "t">>), REL_LOW>>,
       <<Str(<<".", "l", "o", "g">>), REL_LOW>>,
       <<Str(<<".", "w", "a", "v">>), REL_LOW>>,
       <<Str(<<".", "m", "p", "3">>), REL_LOW>>,
       <<Str(<<".", "o", "g", "g">>), REL_LOW>>,
       <<Str(<<".", "j", "p", "g">>), REL_MEDIUM>>,
       <<Str(<<".", "j", "p", "e", "g">>), REL_MEDIUM>>,
       <<Str(<<".", "p", "n", "g">>), REL_MEDIUM>>,
       <<Str(<<".", "g", "i", "f">>), REL_MEDIUM>>,
       <<Str(<<".", "b", "m", "p">>), REL_MEDIUM>>,
       <<Str(<<".", "m", "s", "e", "e", "d">>), REL_CRITICAL>>,
       <<Str(<<".", "m", "i", "n", "i", "s", "e", "e", "d">>), REL_CRITICAL>>,
       <<Str(<<".", "s", "a", "c">>), REL_CRITICAL>>,
       <<Str(<<".", "p", "d", "f">>), REL_HIGH>>,
       <<Str(<<".", "d", "o", "c">>), REL_HIGH>>,
       <<Str(<<".", "d", "o", "c", "x">>), REL_HIGH>>,
       <<Str(<<".", "z", "i", "p">>), REL_HIGH>>,
       <<Str(<<".", "t", "a", "r">>), REL_HIGH>>,
       <<Str(<<".", "g", "z">>), REL_HIGH>> >>

\* table.get(key, default)
MapGet(table, key, default) ==
    IF \E k \in 1..Len(table) : table[k][1] = key
    THEN table[CHOOSE k \in 1..Len(table) : table[k][1] = key][2]
    ELSE default

\* s.lower(): 'A'..'Z' are the characters 0..25, 'a'..'z' the characters 26..51
Lower(s) == [k \in 1..Len(s) |-> IF s[k] \in 0..25 THEN s[k] + 26 ELSE s[k]]

\* a bug that takes level 0 for "not given" (`if not reliability`)
SendFileReliabilityFalsy(given, name) ==
    IF given = NoLevel \/ given = 0
    THEN MapGet(FILE_RELIABILITY_MAP, Lower(PathOf(name).suffix), REL_MEDIUM)
    ELSE given

\* send_file: `if reliability is None: ext = path.suffix.lower();
\* reliability = FILE_RELIABILITY_MAP.get(ext, REL_MEDIUM)`
SendFileReliability(given, name) ==
    IF given = NoLevel
    THEN MapGet(FILE_RELIABILITY_MAP, Lower(PathOf(name).suffix), REL_MEDIUM)
    ELSE given

SendTag == Str(<<"S", "E", "N", "D", ":">>)
MeshFragTag == Str(<<"F", "R", "A", "G", ":">>)

\* dest
MeshDest == Str(<<"N", "o", "d", "e", "_", "2">>)

\* the chunk of index i: its content plays no part in the sender
MeshChunk(i) == <<i % 64>>

\* chunk_msg = f"FRAG:{idx}:{total_chunks}:{chunk}"
FragPayload(i, n, chunk) ==
    MeshFragTag \o IntToStr(i) \o <<Colon>> \o IntToStr(n) \o <<Colon>> \o chunk

\* command = f"SEND:{dest}:{reliability}:{chunk_msg}"
SendCommandText(dest, rel, i, n, chunk) ==
    SendTag \o dest \o <<Colon>> \o IntToStr(rel) \o <<Colon>>
        \o FragPayload(i, n, chunk)

\* file names given to send_file
\* "a.txt"
MeshFileA == Str(<<"a", ".", "t", "x", "t">>)

\* "A.TXT"
MeshFileUpper == Str(<<"A", ".", "T", "X", "T">>)

\* "p.Jpg"
MeshFileJpg == Str(<<"p", ".", "J", "p", "g">>)

\* "d.mseed"
MeshFileSeed == Str(<<"d", ".", "m", "s", "e", "e", "d">>)

\* "x.tar.gz"
MeshFileTarGz == Str(<<"x", ".", "t", "a", "r", ".", "g", "z">>)

\* "README"
MeshFileReadme == Str(<<"R", "E", "A", "D", "M", "E">>)

\* "q.xyz"
MeshFileXyz == Str(<<"q", ".", "x", "y", "z">>)

\* "a."
MeshFileDot == Str(<<"a", ".">>)

MeshNames ==
    {MeshFileA, MeshFileUpper, MeshFileJpg, MeshFileSeed, MeshFileTarGz,
     MeshFileReadme, MeshFileXyz, MeshFileDot}

\* lines the node prints while a chunk is awaited
\* "[CMD] Send completed"
MeshLineCompleted ==
    Str(<<"[", "C", "M", "D", "]", " ", "S", "e", "n", "d", " ", "c", "o", "m",
          "p", "l", "e", "t", "e", "d">>)

\* "[CMD] Send failed"
MeshLineFailed ==
    Str(<<"[", "C", "M", "D", "]", " ", "S", "e", "n", "d", " ", "f", "a", "i",
          "l", "e", "d">>)

\* "[TX] Failed"
MeshLineTxFailed ==
    Str(<<"[", "T", "X", "]", " ", "F", "a", "i", "l", "e", "d">>)

\* "[ACK] from Node_2"
MeshLineAck ==
    Str(<<"[", "A", "C", "K", "]", " ", "f", "r", "o", "m", " ", "N", "o", "d",
          "e", "_", "2">>)

MeshLines == {MeshLineCompleted, MeshLineFailed, MeshLineTxFailed, MeshLineAck}

\* the wait loop of send_fragmented_data: `"[CMD] Send completed" in line`,
\* then `"[CMD] Send failed" in line or "[TX] Failed" in line`
MeshLineClass(line) ==
    IF HasSub(line, MeshLineCompleted) THEN "completed"
    ELSE IF HasSub(line, MeshLineFailed) \/ HasSub(line, MeshLineTxFailed) THEN "failed"
    ELSE "other"

\* nothing happened yet in the transfer
NoHist == [attempts |-> 0, trueFailed |-> 0, writeErrs |-> 0, lateSend |-> FALSE,
           afterWriteErr |-> FALSE, how |-> "none", inc |-> 0, ignored |-> FALSE,
           len |-> 0]

CHUNK_SIZE == 150

\* send_fragmented_data: `for i in range(0, len(data), CHUNK_SIZE):
\* chunks.append(...)`; total_chunks = len(chunks)
TotalChunks(len) == Cardinality({i \in 0..(len - 1) : i % CHUNK_SIZE = 0})

\* "[ERR]"
ErrMarker == Str(<<"[", "E", "R", "R", "]">>)
\* "failed"
FailedWord == Str(<<"f", "a", "i", "l", "e", "d">>)

\* wait_for_response("[CMD] Send completed", ...): `expected in line`, then
\* `"[ERR]" in line or "failed" in line.lower()`
ResponseClass(line) ==
    IF HasSub(line, MeshLineCompleted) THEN "expected"
    ELSE IF HasSub(line, ErrMarker) \/ HasSub(Lower(line), FailedWord) THEN "error"
    ELSE "other"

\* self.stats.failed_chunks > total_chunks * 0.3 (the product is exact or
\* rounds to the same side for the totals of the model)
TooManyFailures(failed, total) == 10 * failed > 3 * total

\* `if not success and self.stats.failed_chunks == 0: failed_chunks += 1`,
\* reached with success False and no sentinel seen
TimeoutCount(failed) == IF failed = 0 THEN failed + 1 ELSE failed

\* a bug that reports success whenever the abort threshold was not reached
AfterMeshChunkLenient(i, n, failed) ==
    IF TooManyFailures(failed, n) THEN [pc |-> "done", idx |-> i, ret |-> "false"]
    ELSE IF i + 1 < n THEN [pc |-> "send", idx |-> i + 1, ret |-> "none"]
    ELSE [pc |-> "done", idx |-> i, ret |-> "true"]

\* the end of the loop body after a wait: the abort test, else the next chunk,
\* else the summary and `return self.stats.failed_chunks == 0`
AfterMeshChunk(i, n, failed) ==
    IF TooManyFailures(failed, n) THEN [pc |-> "done", idx |-> i, ret |-> "false"]
    ELSE IF i + 1 < n THEN [pc |-> "send", idx |-> i + 1, ret |-> "none"]
    ELSE [pc |-> "done", idx |-> i, ret |-> IF failed = 0 THEN "true" ELSE "false"]

\* `if not self.send_command(command): failed_chunks += 1; continue`: the next
\* chunk, or the summary after the last one; the abort test is skipped
AfterWriteError(i, n, failed) ==
    IF i + 1 < n THEN [pc |-> "send", idx |-> i + 1, ret |-> "none"]
    ELSE [pc |-> "done", idx |-> i, ret |-> IF failed = 0 THEN "true" ELSE "false"]

\* send_file(dest, filepath, reliability) of a file whose FILE payload splits
\* into n chunks; readable is False when path.is_file() is False or
\* read_bytes raises
MeshSendFile(given, name, readable, n) ==
    /\ mPc = "idle"
    /\ mGiven' = given
    /\ mName' = name
    /\ IF readable
       THEN /\ mRel' = SendFileReliability(given, name)
            /\ mTotal' = n
            /\ mPc' = "send"
            /\ mRet' = "none"
       ELSE /\ mPc' = "done"
            /\ mRet' = "false"
            /\ UNCHANGED <<mRel, mTotal>>
    /\ mIdx' = 0
    /\ mSent' = 0
    /\ mFailed' = 0
    /\ mHist' = NoHist
    /\ UNCHANGED mLastCmd
    /\ UNCHANGED <<txVars, rxVars, permVars, sessVars, lineVars, tripVars, meshRxVars, extVars>>

\* the loop body up to send_command(command); ok is False when ser.write or
\* ser.flush raises
MeshSendCommand(ok) ==
    /\ mPc = "send"
    /\ mLastCmd' = SendCommandText(MeshDest, mRel, mIdx, mTotal, MeshChunk(mIdx))
    /\ IF ok
       THEN /\ mPc' = "wait"
            /\ mHist' = [mHist EXCEPT
                  !.attempts = @ + 1,
                  !.lateSend = @ \/ TooManyFailures(mHist.trueFailed, mTotal),
                  !.afterWriteErr = @ \/ mHist.writeErrs > 0,
                  !.ignored = FALSE]
            /\ UNCHANGED <<mIdx, mFailed, mRet>>
       ELSE /\ mFailed' = mFailed + 1
            /\ \E nx \in {AfterWriteError(mIdx, mTotal, mFailed + 1)} :
                  /\ mPc' = nx.pc
                  /\ mIdx' = nx.idx
                  /\ mRet' = nx.ret
            /\ mHist' = [mHist EXCEPT
                  !.attempts = @ + 1,
                  !.lateSend = @ \/ TooManyFailures(mHist.trueFailed, mTotal),
                  !.afterWriteErr = @ \/ mHist.writeErrs > 0,
                  !.trueFailed = @ + 1,
                  !.writeErrs = @ + 1,
                  !.how = "write_error",
                  !.inc = 1,
                  !.ignored = FALSE]
    /\ UNCHANGED <<mGiven, mName, mRel, mTotal, mSent>>
    /\ UNCHANGED <<txVars, rxVars, permVars, sessVars, lineVars, tripVars, meshRxVars, extVars>>

\* the wait loop of send_fragmented_data handles the line it has read
MeshTakeLine(line) ==
    /\ mPc = "wait"
    /\ \E cls \in {MeshLineClass(line)} :
         CASE cls = "completed" ->
                /\ mSent' = mSent + 1
                /\ \E nx \in {AfterMeshChunk(mIdx, mTotal, mFailed)} :
                      /\ mPc' = nx.pc
                      /\ mIdx' = nx.idx
                      /\ mRet' = nx.ret
                /\ mHist' = [mHist EXCEPT !.how = "completed", !.inc = 0]
                /\ UNCHANGED mFailed
           [] cls = "failed" ->
                /\ mFailed' = mFailed + 1
                /\ \E nx \in {AfterMeshChunk(mIdx, mTotal, mFailed + 1)} :
                      /\ mPc' = nx.pc
                      /\ mIdx' = nx.idx
                      /\ mRet' = nx.ret
                /\ mHist' = [mHist EXCEPT !.how = "failed", !.inc = 1,
                                          !.trueFailed = @ + 1]
                /\ UNCHANGED mSent
           [] OTHER ->
                /\ mHist' = [mHist EXCEPT !.ignored = TRUE]
                /\ UNCHANGED <<mPc, mIdx, mRet, mSent, mFailed>>
    /\ UNCHANGED <<mGiven, mName, mRel, mTotal, mLastCmd>>
    /\ UNCHANGED <<txVars, rxVars, permVars, sessVars, lineVars, tripVars, meshRxVars>>

\* the wait loop reads a line before the deadline
MeshReadLine(line) ==
    /\ MeshTakeLine(line)
    /\ UNCHANGED extVars

\* the node prints a line; it waits in the serial buffer, marked with the
\* chunk wait during which it was printed (0: outside any wait)
NodeEmit(line) ==
    /\ Len(chLines) < MaxChanLines
    /\ chLines' = Append(chLines, [text |-> line,
                                   wait |-> IF mPc = "wait" THEN mHist.attempts ELSE 0])
    /\ UNCHANGED <<monOn, chHist, listenVars, scriptVars>>
    /\ UNCHANGED <<txVars, rxVars, permVars, sessVars, lineVars, tripVars, meshVars>>

\* the wait loop: `if self.ser.in_waiting: line = self.ser.readline()`
MeshReadQueued ==
    /\ chLines # <<>>
    /\ MeshTakeLine(Head(chLines).text)
    /\ chLines' = Tail(chLines)
    /\ chHist' = [chHist EXCEPT !.both = @ \/ monOn]
    /\ UNCHANGED <<monOn, listenVars, scriptVars>>

\* mesh_gui.py toggle_monitoring: start_monitoring starts monitor_thread,
\* stop_monitoring clears self.monitoring; the button stays enabled while a
\* transfer runs (_set_tx_state disables the send and discover buttons only)
MonitorToggle ==
    /\ monOn' = ~monOn
    /\ UNCHANGED <<chLines, chHist, listenVars, scriptVars>>
    /\ UNCHANGED <<txVars, rxVars, permVars, sessVars, lineVars, tripVars, meshVars>>

\* monitor_thread: `if self.interface.ser.in_waiting:
\* line = self.interface.ser.readline()`; the line goes to the log window
MonitorRead ==
    /\ monOn
    /\ chLines # <<>>
    /\ chLines' = Tail(chLines)
    /\ chHist' = [chHist EXCEPT
                    !.both = @ \/ mPc = "wait",
                    !.stolen = @ \/ (/\ mPc = "wait"
                                     /\ Head(chLines).wait = mHist.attempts
                                     /\ MeshLineClass(Head(chLines).text) # "other")]
    /\ UNCHANGED <<monOn, listenVars, scriptVars>>
    /\ UNCHANGED <<txVars, rxVars, permVars, sessVars, lineVars, tripVars, meshVars>>

\* the deadline of the wait loop passes with no sentinel read
MeshDeadline ==
    /\ mPc = "wait"
    /\ mFailed' = TimeoutCount(mFailed)
    /\ \E nx \in {AfterMeshChunk(mIdx, mTotal, TimeoutCount(mFailed))} :
          /\ mPc' = nx.pc
          /\ mIdx' = nx.idx
          /\ mRet' = nx.ret
    /\ mHist' = [mHist EXCEPT !.how = "timeout",
                              !.inc = TimeoutCount(mFailed) - mFailed,
                              !.trueFailed = @ + 1]
    /\ UNCHANGED <<mGiven, mName, mRel, mTotal, mSent, mLastCmd>>
    /\ UNCHANGED <<txVars, rxVars, permVars, sessVars, lineVars, tripVars, meshRxVars, extVars>>

\* send_text(dest, text, reliability) of a text of len characters: one SEND
\* command when len <= 150, else send_fragmented_data
MeshSendText(len, rel) ==
    /\ mPc = "idle"
    /\ mGiven' = rel
    /\ mRel' = rel
    /\ mName' = <<>>
    /\ mTotal' = IF len <= CHUNK_SIZE THEN 0 ELSE TotalChunks(len)
    /\ mPc' = IF len <= CHUNK_SIZE THEN "single" ELSE "send"
    /\ mRet' = "none"
    /\ mIdx' = 0
    /\ mSent' = 0
    /\ mFailed' = 0
    /\ mHist' = [NoHist EXCEPT !.len = len]
    /\ UNCHANGED mLastCmd
    /\ UNCHANGED <<txVars, rxVars, permVars, sessVars, lineVars, tripVars, meshRxVars, extVars>>

\* send_text, single packet: send_command(f"SEND:{dest}:{reliability}:{text}")
MeshSingleCommand(ok) ==
    /\ mPc = "single"
    /\ mPc' = IF ok THEN "single_wait" ELSE "done"
    /\ mRet' = IF ok THEN "none" ELSE "false"
    /\ mHist' = [mHist EXCEPT !.attempts = @ + 1]
    /\ UNCHANGED <<mGiven, mName, mRel, mIdx, mTotal, mSent, mFailed, mLastCmd>>
    /\ UNCHANGED <<txVars, rxVars, permVars, sessVars, lineVars, tripVars, meshRxVars, extVars>>

\* send_text, single packet: wait_for_response reads a line
MeshSingleLine(line) ==
    /\ mPc = "single_wait"
    /\ \E cls \in {ResponseClass(line)} :
          /\ mPc' = IF cls = "other" THEN "single_wait" ELSE "done"
          /\ mRet' = CASE cls = "expected" -> "true"
                        [] cls = "error" -> "false"
                        [] OTHER -> "none"
          /\ mHist' = [mHist EXCEPT !.how = cls, !.ignored = cls = "other"]
    /\ UNCHANGED <<mGiven, mName, mRel, mIdx, mTotal, mSent, mFailed, mLastCmd>>
    /\ UNCHANGED <<txVars, rxVars, permVars, sessVars, lineVars, tripVars, meshRxVars, extVars>>

\* send_text, single packet: the deadline of wait_for_response passes
MeshSingleDeadline ==
    /\ mPc = "single_wait"
    /\ mPc' = "done"
    /\ mRet' = "false"
    /\ mHist' = [mHist EXCEPT !.how = "timeout"]
    /\ UNCHANGED <<mGiven, mName, mRel, mIdx, mTotal, mSent, mFailed, mLastCmd>>
    /\ UNCHANGED <<txVars, rxVars, permVars, sessVars, lineVars, tripVars, meshRxVars, extVars>>

(***************************************************************************)
(* MeshReceiver (mesh_receiver.py): process_payload, handle_fragment,      *)
(* handle_file and handle_text_message.                                    *)
(***************************************************************************)
Underscore == Ord("_")

\* process_payload has not been called
NoMeshCall ==
    [op |-> "none", src |-> <<>>, seq |-> 0, payload |-> <<>>, kind |-> "none",
     emitted |-> FALSE, full |-> <<>>, name |-> <<>>, bytes |-> <<>>,
     size |-> 0, warned |-> FALSE, prevDisk |-> <<>>]

\* outcome of a handler that persisted nothing and emitted nothing
MeshResult(frs, dk, how) ==
    [fragments |-> frs, disk |-> dk, kind |-> how, emitted |-> FALSE,
     full |-> <<>>, name |-> <<>>, bytes |-> <<>>, size |-> 0, warned |-> FALSE]

\* handle_file: f"{base_name}_{counter}{suffix}"
NumberedName(fname, counter) ==
    PathOf(fname).stem \o <<Underscore>> \o IntToStr(counter) \o PathOf(fname).suffix

\* handle_file: output_dir / filename, or the first numbered name that does
\* not exist yet
UniqueName(dk, fname) ==
    IF fname \notin DOMAIN dk THEN fname
    ELSE NumberedName(fname,
            CHOOSE c \in 1..(Cardinality(DOMAIN dk) + 1) :
                /\ NumberedName(fname, c) \notin DOMAIN dk
                /\ \A b \in 1..(c - 1) : NumberedName(fname, b) \in DOMAIN dk)

\* a bug that keeps a file only when its length is the declared size
SaveFileStrict(frs, dk, name, size, bytes) ==
    IF Len(bytes) = size
    THEN [fragments |-> frs, disk |-> Put(dk, name, bytes), kind |-> "saved",
          emitted |-> FALSE, full |-> <<>>, name |-> name, bytes |-> bytes,
          size |-> size, warned |-> FALSE]
    ELSE [fragments |-> frs, disk |-> dk, kind |-> "saved",
          emitted |-> FALSE, full |-> <<>>, name |-> name, bytes |-> bytes,
          size |-> size, warned |-> TRUE]

\* handle_file: output_path.write_bytes(file_data), then the comparison of
\* len(file_data) with size, which only prints
SaveFile(frs, dk, name, size, bytes) ==
    [fragments |-> frs, disk |-> Put(dk, name, bytes), kind |-> "saved",
     emitted |-> FALSE, full |-> <<>>, name |-> name, bytes |-> bytes,
     size |-> size, warned |-> Len(bytes) # size]

\* handle_file after int(parts[2]): base64.b64decode, the unique name, the write
HandleFileDecoded(frs, dk, fname, size, raw) ==
    IF raw.ok THEN SaveFile(frs, dk, UniqueName(dk, fname), size, raw.bytes)
    ELSE MeshResult(frs, dk, "decode_error")

\* handle_file on parts = payload.split(":", 3); a size that is not an
\* integer raises ValueError, caught by the outer except
HandleFileFields(frs, dk, parts) ==
    IF Len(parts) # 4 THEN MeshResult(frs, dk, "invalid")
    ELSE IF ~ParseInt(parts[3]).ok THEN MeshResult(frs, dk, "error")
    ELSE HandleFileDecoded(frs, dk, parts[2], ParseInt(parts[3]).val,
                           B64Decode(parts[4]))

HandleFile(frs, dk, payload) == HandleFileFields(frs, dk, Split(payload, Colon, 3))

\* handle_text_message: the text is printed and appended to messages.log
HandleTextMessage(frs, dk, text) == MeshResult(frs, dk, "text")

\* handle_fragment: the reassembled data goes to handle_file or to
\* handle_text_message
DeliverFull(frs, dk, full) ==
    [(IF StartsWith(full, FileTag) THEN HandleFile(frs, dk, full)
      ELSE HandleTextMessage(frs, dk, full))
        EXCEPT !.emitted = TRUE, !.full = full]

\* handle_fragment once the chunk is stored: is_complete, get_reassembled
\* (None when an index of range(total_chunks) is missing), `if full_data`
HandleFragmentEntry(frs, dk, key, entry) ==
    IF IsComplete(entry.received_chunks, entry.total_chunks)
    THEN IF /\ HasRange(entry.received_chunks, entry.total_chunks)
            /\ JoinRange(entry.received_chunks, entry.total_chunks) # <<>>
         THEN DeliverFull(Del(frs, key), dk,
                          JoinRange(entry.received_chunks, entry.total_chunks))
         ELSE MeshResult(Put(frs, key, entry), dk, "reassembly_failed")
    ELSE MeshResult(Put(frs, key, entry), dk, "pending")

\* self.fragments[key], created with total_chunks = total when absent
EntryOf(frs, key, n) ==
    IF key \in DOMAIN frs THEN frs[key]
    ELSE [total_chunks |-> n, received_chunks |-> EmptyDict, last_update |-> mrNow]

\* `if idx not in msg.received_chunks: msg.received_chunks[idx] = chunk;
\* msg.last_update = time.time()`
StoreChunk(entry, i, chunk) ==
    IF i \in DOMAIN entry.received_chunks THEN entry
    ELSE [entry EXCEPT !.received_chunks = Put(@, i, chunk), !.last_update = mrNow]

\* handle_fragment on parts = payload.split(":", 3): key = (source, total)
HandleFragmentFields(frs, dk, src, parts) ==
    IF Len(parts) # 4 THEN MeshResult(frs, dk, "invalid")
    ELSE IF ~ParseInt(parts[2]).ok \/ ~ParseInt(parts[3]).ok
    THEN MeshResult(frs, dk, "error")
    ELSE HandleFragmentEntry(frs, dk, <<src, ParseInt(parts[3]).val>>,
            StoreChunk(EntryOf(frs, <<src, ParseInt(parts[3]).val>>,
                               ParseInt(parts[3]).val),
                       ParseInt(parts[2]).val, parts[4]))

HandleFragment(frs, dk, src, payload) ==
    HandleFragmentFields(frs, dk, src, Split(payload, Colon, 3))

\* process_payload(source, payload)
ProcessPayload(frs, dk, src, payload) ==
    IF StartsWith(payload, MeshFragTag) THEN HandleFragment(frs, dk, src, payload)
    ELSE IF StartsWith(payload, FileTag) THEN HandleFile(frs, dk, payload)
    ELSE HandleTextMessage(frs, dk, payload)

\* sources
Node1 == Str(<<"N", "o", "d", "e", "_", "1">>)
Node2 == Str(<<"N", "o", "d", "e", "_", "2">>)

\* messages on the air: source, sequence number, and the chunks they were
\* split into; the last one is FILE:a.txt:3:SGVs in two chunks
MeshMsgs ==
    {[src |-> Node1, seq |-> 1, chunks |-> <<Str(<<"a", "0">>), Str(<<"a", "1">>)>>],
     [src |-> Node1, seq |-> 2, chunks |-> <<Str(<<"b", "0">>), Str(<<"b", "1">>)>>],
     [src |-> Node2, seq |-> 1, chunks |-> <<Str(<<"c", "0">>), Str(<<"c", "1">>)>>],
     [src |-> Node1, seq |-> 3,
      chunks |-> <<Str(<<"F", "I", "L", "E", ":", "a", ".", "t", "x", "t", ":",
                         "3", ":">>),
                   Str(<<"S", "G", "V", "s">>)>>]}

\* payloads that arrive whole
\* "FILE:a.txt:3:SGVs": the declared size is the decoded length
PayloadFileExact ==
    Str(<<"F", "I", "L", "E", ":", "a", ".", "t", "x", "t", ":", "3", ":",
          "S", "G", "V", "s">>)

\* "FILE:a.txt:5:SGVs": the declared size is larger than the decoded length
PayloadFileShort ==
    Str(<<"F", "I", "L", "E", ":", "a", ".", "t", "x", "t", ":", "5", ":",
          "S", "G", "V", "s">>)

\* "FILE:a.txt:1:bG8=": the declared size is smaller than the decoded length
PayloadFileLong ==
    Str(<<"F", "I", "L", "E", ":", "a", ".", "t", "x", "t", ":", "1", ":",
          "b", "G", "8", "=">>)

\* "FILE:a.txt:x:SGVs"
PayloadFileBadSize ==
    Str(<<"F", "I", "L", "E", ":", "a", ".", "t", "x", "t", ":", "x", ":",
          "S", "G", "V", "s">>)

\* "FILE:a.txt:3:S"
PayloadFileBadB64 ==
    Str(<<"F", "I", "L", "E", ":", "a", ".", "t", "x", "t", ":", "3", ":", "S">>)

\* "FILE:a.txt"
PayloadFileNoFields ==
    Str(<<"F", "I", "L", "E", ":", "a", ".", "t", "x", "t">>)

\* "hello"
PayloadText == Str(<<"h", "e", "l", "l", "o">>)

WholePayloads ==
    {PayloadFileExact, PayloadFileShort, PayloadFileLong, PayloadFileBadSize,
     PayloadFileBadB64, PayloadFileNoFields, PayloadText}

\* listen: a DATA header of (src, seq) followed by its payload line;
\* process_payload is given the source and the payload only
MeshRxData(src, seq, payload) ==
    /\ mrCalls < MaxMeshRxCalls
    /\ mrCalls' = mrCalls + 1
    /\ \E r \in {ProcessPayload(mrFragments, mrDisk, src, payload)} :
          /\ mrFragments' = r.fragments
          /\ mrDisk' = r.disk
          /\ mrLast' = [op |-> "process_payload", src |-> src, seq |-> seq,
                        payload |-> payload, kind |-> r.kind,
                        emitted |-> r.emitted, full |-> r.full, name |-> r.name,
                        bytes |-> r.bytes, size |-> r.size, warned |-> r.warned,
                        prevDisk |-> mrDisk]
    /\ UNCHANGED <<txVars, rxVars, permVars, sessVars, lineVars, tripVars, meshTxVars, extVars>>

\* the same fragment as a FRAG line of the LoRa transceiver:
\* add_frag(src, seq, idx, tot, chunk)
FragDeliver(src, seq, i, n, chunk) ==
    /\ mrCalls < MaxMeshRxCalls
    /\ mrCalls' = mrCalls + 1
    /\ \E r \in {AddFragResult(messages, <<src, seq>>, i, n, chunk)} :
          /\ messages' = r.map
          /\ rxRet' = CallRecord("add_frag", messages, <<src, seq>>, i, n, chunk,
                                 r.kind, r.payload)
    /\ UNCHANGED <<files, disk, rxCalls>>
    /\ UNCHANGED <<mrFragments, mrDisk, mrLast>>
    /\ UNCHANGED <<txVars, permVars, sessVars, lineVars, tripVars, meshTxVars, extVars>>

InitTx ==
    /\ tx_event = FALSE
    /\ tx_last = NoResult
    /\ tx_lock = "none"
    /\ pc = [t \in Senders |-> "idle"]
    /\ kind = [t \in Senders |-> "file"]
    /\ idx = [t \in Senders |-> 0]
    /\ tot = [t \in Senders |-> 0]
    /\ ret = [t \in Senders |-> "none"]
    /\ calls = 0
    /\ sent = [t \in Senders |-> <<>>]
    /\ acks = [t \in Senders |-> 0]
    /\ failedAt = [t \in Senders |-> -1]
    /\ lastRes = [t \in Senders |-> NoTaken]
    /\ rdPc = "nothread"
    /\ rdLine = ""
    /\ rdStale = {}
    /\ rxq = <<>>
    /\ mcuPending = 0
    /\ ser = "none"
    /\ stopFlag = FALSE
    /\ closePc = "idle"
    /\ closes = 0
    /\ closeErr = FALSE
    /\ rdLog = NoLine
    /\ rdCount = 0
    /\ tripName = <<>>
    /\ tripBytes = <<>>
    /\ tripSize = 0
    /\ tripOrder = <<>>
    /\ tripPos = 0

InitRx ==
    /\ messages = <<>>
    /\ files = <<>>
    /\ disk = <<>>
    /\ rxRet = NoCall
    /\ rxCalls = 0

InitPerm ==
    /\ permTotal = 0
    /\ permOrder = <<>>
    /\ permTexts = <<>>
    /\ permPos = 0
    /\ permRets = <<>>

(***************************************************************************)
(* The standalone sender scripts: tx_send_file.py (11-LoRa_RealTime_MultiM)*)
(* and the two tx_send_mseed.py (08-LoRa_RealTime_Frag_8,                  *)
(* LargeData/LoRa_RealTime_Frag_7).                                        *)
(***************************************************************************)
Scripts == {"tx_send_file", "tx_send_mseed_8", "tx_send_mseed_7"}

\* nothing written yet in the run
NoScriptHist == [written |-> 0, failed |-> FALSE, late |-> FALSE, how |-> "none"]

\* lines the MCU may print during a wait
ScriptLines == {LineDone, LineAbort, LineFailed, LineDoneAbort, LineBoot, LineBlank}

\* wait_for_tx_done of LoRa_RealTime_Frag_7 has no deadline (`while True`)
HasDeadline(script) == script # "tx_send_mseed_7"

\* the loop after the wait of chunk i: tx_send_file.send_file and Frag_8 main
\* `if not ok: break`; Frag_7 main ignores how wait_for_tx_done ended
AfterScriptWait(script, i, n, ok) ==
    IF script # "tx_send_mseed_7" /\ ~ok THEN [pc |-> "done", idx |-> i]
    ELSE IF i + 1 < n THEN [pc |-> "write", idx |-> i + 1]
    ELSE [pc |-> "done", idx |-> i]

\* a run of the script on a file that splits into n chunks
ScriptStart(script, n) ==
    /\ sPc = "idle"
    /\ sScript' = script
    /\ sTot' = n
    /\ sIdx' = 0
    /\ sPc' = IF n = 0 THEN "done" ELSE "write"
    /\ sHist' = NoScriptHist
    /\ UNCHANGED <<txVars, rxVars, permVars, sessVars, lineVars, tripVars, meshVars>>
    /\ UNCHANGED <<listenVars, chanVars>>

\* ser.write(FILECHUNK line of chunk idx); ser.flush()
ScriptWrite ==
    /\ sPc = "write"
    /\ sPc' = "wait"
    /\ sHist' = [sHist EXCEPT !.written = @ + 1, !.late = @ \/ sHist.failed]
    /\ UNCHANGED <<sScript, sIdx, sTot>>
    /\ UNCHANGED <<txVars, rxVars, permVars, sessVars, lineVars, tripVars, meshVars>>
    /\ UNCHANGED <<listenVars, chanVars>>

\* the wait loop reads a line: `if not line: continue`, [TX DONE], then
\* [ABORT] / TX FAILED
ScriptReadLine(raw) ==
    /\ sPc = "wait"
    /\ \E cls \in {LineClass(ReadLine(raw))} :
          IF cls \in {"done", "fail"}
          THEN /\ \E nx \in {AfterScriptWait(sScript, sIdx, sTot, cls = "done")} :
                     /\ sPc' = nx.pc
                     /\ sIdx' = nx.idx
               /\ sHist' = [sHist EXCEPT !.failed = @ \/ cls = "fail", !.how = cls]
          ELSE UNCHANGED <<sPc, sIdx, sHist>>
    /\ UNCHANGED <<sScript, sTot>>
    /\ UNCHANGED <<txVars, rxVars, permVars, sessVars, lineVars, tripVars, meshVars>>
    /\ UNCHANGED <<listenVars, chanVars>>

\* the deadline of wait_for_chunk_done passes: ok stays False
ScriptDeadline ==
    /\ sPc = "wait"
    /\ HasDeadline(sScript)
    /\ \E nx \in {AfterScriptWait(sScript, sIdx, sTot, FALSE)} :
          /\ sPc' = nx.pc
          /\ sIdx' = nx.idx
    /\ sHist' = [sHist EXCEPT !.how = "timeout"]
    /\ UNCHANGED <<sScript, sTot>>
    /\ UNCHANGED <<txVars, rxVars, permVars, sessVars, lineVars, tripVars, meshVars>>
    /\ UNCHANGED <<listenVars, chanVars>>

InitScript ==
    /\ sScript = "none"
    /\ sPc = "idle"
    /\ sIdx = 0
    /\ sTot = 0
    /\ sHist = NoScriptHist

(***************************************************************************)
(* MeshReceiver.listen: the serial lines of the node, DATA headers and     *)
(* their payload lines, and the periodic cleanup of incomplete messages.   *)
(***************************************************************************)
\* self.fragment_timeout = 300.0
FRAGMENT_TIMEOUT == 300
\* `if now - last_cleanup > 60.0`
CLEANUP_PERIOD == 60

DataTag == Str(<<"[", "R", "X", "]", " ", "D", "A", "T", "A", " ", "f", "r", "o", "m">>)
PayloadTag == Str(<<"[", "R", "X", "]", " ", "P", "a", "y", "l", "o", "a", "d", ":">>)
SeqTag == Str(<<"s", "e", "q", "=">>)
RParen == Ord(")")

NonEmptyPiece(x) == x # <<>>
HasSeqTag(p) == HasSub(p, SeqTag)

\* line.split(): the pieces between runs of blanks
WsSplit(line) == SelectSeq(Split(line, Space, 0 - 1), NonEmptyPiece)

\* s.rstrip(",)")
RECURSIVE RStripChars(_, _)
RStripChars(s, cs) ==
    IF s # <<>> /\ s[Len(s)] \in cs THEN RStripChars(SubSeq(s, 1, Len(s) - 1), cs)
    ELSE s

\* int(seq_part[0].split("=")[1].rstrip(",)")), 0 without a seq= token
SeqOfParts(seqParts) ==
    IF seqParts = <<>> THEN [ok |-> TRUE, val |-> 0]
    ELSE ParseInt(RStripChars(Split(seqParts[1], Pad, 0 - 1)[2], {Comma, RParen}))

\* parse_data_message on parts = line.split(): None, the DATA record, or the
\* ValueError of int()
ParseDataParts(parts) ==
    IF Len(parts) < 4 THEN [kind |-> "none", source |-> <<>>, seq |-> 0]
    ELSE IF ~SeqOfParts(SelectSeq(parts, HasSeqTag)).ok
    THEN [kind |-> "ValueError", source |-> <<>>, seq |-> 0]
    ELSE [kind |-> "DATA", source |-> parts[4],
          seq |-> SeqOfParts(SelectSeq(parts, HasSeqTag)).val]

\* parse_data_message(line)
ParseDataMessage(line) ==
    IF HasSub(line, DataTag) THEN ParseDataParts(WsSplit(line))
    ELSE [kind |-> "none", source |-> <<>>, seq |-> 0]

\* line.index(tag)
IndexOf(line, tag) ==
    CHOOSE k \in 1..Len(line) :
        /\ k + Len(tag) - 1 <= Len(line)
        /\ SubSeq(line, k, k + Len(tag) - 1) = tag
        /\ \A j \in 1..(k - 1) : SubSeq(line, j, j + Len(tag) - 1) # tag

\* parse_payload_line(line): None, or the stripped text behind the tag
ParsePayloadLine(line) ==
    IF HasSub(line, PayloadTag)
    THEN [some |-> TRUE,
          text |-> Strip(SubSeq(line, IndexOf(line, PayloadTag) + Len(PayloadTag),
                                Len(line)))]
    ELSE [some |-> FALSE, text |-> <<>>]

\* a cleanup that measures against the cleanup period
CleanupOldFragmentsEarly(frs, now) ==
    [k \in {x \in DOMAIN frs : ~(now - frs[x].last_update > CLEANUP_PERIOD)} |-> frs[k]]

\* cleanup_old_fragments: `if now - msg.last_update > self.fragment_timeout:
\* to_remove.append(key)`, then `del self.fragments[key]`
CleanupOldFragments(frs, now) ==
    [k \in {x \in DOMAIN frs : ~(now - frs[x].last_update > FRAGMENT_TIMEOUT)} |-> frs[k]]

\* pending_data = None
NoPending == [some |-> FALSE, source |-> <<>>, seq |-> 0]

\* a loop that keeps the header after its payload was processed
PendingKept(pending) == pending

\* `pending_data = None` after process_payload
PendingAfterPayload(pending) == NoPending

\* what the observer knows of the messages under way: per key the indices
\* delivered so far and the time of the last new one
NoFresh == <<>>

NoListenLog ==
    [op |-> "none", line |-> <<>>, src |-> <<>>, payload |-> <<>>,
     before |-> EmptyDict, ran |-> FALSE, now |-> 0, emitted |-> FALSE,
     kind |-> "", hdrSome |-> FALSE, hdrSrc |-> <<>>, used |-> 0,
     fresh |-> NoFresh, freshBefore |-> NoFresh, whole |-> FALSE,
     malformed |-> FALSE]

\* lines of the node; header, src, frag, idx, total and malformed say what
\* the node meant by the line
ListenInput(text, header, src, frag, i, total, malformed) ==
    [text |-> text, header |-> header, src |-> src, frag |-> frag, idx |-> i,
     total |-> total, malformed |-> malformed]

RxPrefix == Str(<<"[", "R", "X", "]", " ">>)

ListenInputs ==
    {ListenInput(DataTag \o <<Space>> \o Node1
                    \o Str(<<" ", "(", "s", "e", "q", "=", "1", ",", " ", "h", "o",
                             "p", "s", "=", "2", ")">>),
                 TRUE, Node1, FALSE, 0, 0, FALSE),
     ListenInput(DataTag \o <<Space>> \o Node2
                    \o Str(<<" ", "(", "s", "e", "q", "=", "7", ")">>),
                 TRUE, Node2, FALSE, 0, 0, FALSE),
     ListenInput(DataTag \o <<Space>> \o Node1
                    \o Str(<<" ", "(", "s", "e", "q", "=", "x", ",", " ", "h", "o",
                             "p", "s", "=", "2", ")">>),
                 TRUE, Node1, FALSE, 0, 0, TRUE),
     ListenInput(DataTag, FALSE, <<>>, FALSE, 0, 0, TRUE),
     ListenInput(PayloadTag \o <<Space>> \o FragPayload(0, 2, Str(<<"a", "0">>)),
                 FALSE, <<>>, TRUE, 0, 2, FALSE),
     ListenInput(PayloadTag \o <<Space>> \o FragPayload(1, 2, Str(<<"a", "1">>)),
                 FALSE, <<>>, TRUE, 1, 2, FALSE),
     ListenInput(PayloadTag \o <<Space>> \o FragPayload(0, 1, Str(<<"b">>)),
                 FALSE, <<>>, TRUE, 0, 1, FALSE),
     ListenInput(PayloadTag \o <<Space>> \o Str(<<"h", "i">>),
                 FALSE, <<>>, FALSE, 0, 0, FALSE),
     ListenInput(PayloadTag \o <<Space>> \o MeshFragTag
                    \o Str(<<"x", ":", "2", ":", "a", "0">>),
                 FALSE, <<>>, FALSE, 0, 0, TRUE),
     ListenInput(PayloadTag \o <<Space>> \o FileTag
                    \o Str(<<"a", ".", "t", "x", "t", ":", "x", ":", "S", "G", "V", "s">>),
                 FALSE, <<>>, FALSE, 0, 0, TRUE),
     ListenInput(PayloadTag, FALSE, <<>>, FALSE, 0, 0, TRUE),
     ListenInput(Str(<<"[", "R", "O", "U", "T", "E", "]">>),
                 FALSE, <<>>, FALSE, 0, 0, FALSE),
     ListenInput(<<Space, Space>>, FALSE, <<>>, FALSE, 0, 0, FALSE)}

\* the observer's view once a fragment (idx of total) of key was processed
FreshPut(fresh, key, i, total) ==
    IF key \in DOMAIN fresh
    THEN IF i \in fresh[key].idxs THEN fresh
         ELSE Put(fresh, key, [idxs |-> fresh[key].idxs \cup {i}, last |-> mrNow])
    ELSE Put(fresh, key, [idxs |-> {i}, last |-> mrNow])

FreshWhole(fresh, key, total) ==
    key \in DOMAIN fresh /\ fresh[key].idxs = 0..(total - 1)

FreshAfter(fresh, key, i, total) ==
    IF FreshWhole(FreshPut(fresh, key, i, total), key, total)
    THEN Del(FreshPut(fresh, key, i, total), key)
    ELSE FreshPut(fresh, key, i, total)

\* the periodic part of an iteration: `now = time.time();
\* if now - last_cleanup > 60.0: self.cleanup_old_fragments(); last_cleanup = now`
ListenPeriodic(log) ==
    IF mrNow - lsLastCleanup > CLEANUP_PERIOD
    THEN /\ mrFragments' = CleanupOldFragments(mrFragments, mrNow)
         /\ lsLastCleanup' = mrNow
         /\ lsLog' = [log EXCEPT !.ran = TRUE,
                        !.fresh = [k \in DOMAIN log.fresh
                                      \cap DOMAIN CleanupOldFragments(mrFragments, mrNow)
                                   |-> log.fresh[k]]]
    ELSE /\ UNCHANGED <<mrFragments, lsLastCleanup>>
         /\ lsLog' = log

\* the record of an iteration, before its outcome is filled in
ListenLogOf(op, inp) ==
    [lsLog EXCEPT !.op = op, !.line = inp.text, !.before = mrFragments,
                  !.ran = FALSE, !.now = mrNow, !.emitted = FALSE, !.kind = "",
                  !.src = <<>>, !.payload = <<>>, !.freshBefore = lsLog.fresh,
                  !.whole = FALSE, !.malformed = inp.malformed]

\* `self.process_payload(pending_data["source"], payload); pending_data = None;
\* continue`
ListenProcess(inp, payload) ==
    /\ \E r \in {ProcessPayload(mrFragments, mrDisk, lsPending.source, payload)} :
          /\ mrFragments' = r.fragments
          /\ mrDisk' = r.disk
          /\ lsLog' = [ListenLogOf("payload", inp) EXCEPT
                          !.src = lsPending.source, !.payload = payload,
                          !.emitted = r.emitted, !.kind = r.kind,
                          !.used = @ + 1,
                          !.fresh = IF inp.frag
                                    THEN FreshAfter(@, <<lsLog.hdrSrc, inp.total>>,
                                                    inp.idx, inp.total)
                                    ELSE @,
                          !.whole = inp.frag /\
                                    FreshWhole(FreshPut(lsLog.fresh,
                                                        <<lsLog.hdrSrc, inp.total>>,
                                                        inp.idx, inp.total),
                                               <<lsLog.hdrSrc, inp.total>>, inp.total)]
    /\ lsPending' = PendingAfterPayload(lsPending)
    /\ UNCHANGED <<lsLastCleanup, lsAlive>>

\* one iteration of the loop with a line waiting: readline, strip, then the
\* header, the payload, or the echo and the periodic part
ListenLineOn(inp, line, hdr) ==
    IF line = <<>>
    THEN /\ lsLog' = ListenLogOf("blank", inp)
         /\ UNCHANGED <<mrFragments, mrDisk, lsPending, lsLastCleanup, lsAlive>>
    ELSE IF hdr.kind = "ValueError"
    THEN /\ lsAlive' = FALSE
         /\ lsLog' = ListenLogOf("raised", inp)
         /\ UNCHANGED <<mrFragments, mrDisk, lsPending, lsLastCleanup>>
    ELSE IF hdr.kind = "DATA"
    THEN /\ lsPending' = [some |-> TRUE, source |-> hdr.source, seq |-> hdr.seq]
         /\ lsLog' = [ListenLogOf("header", inp) EXCEPT
                         !.hdrSome = inp.header, !.hdrSrc = inp.src, !.used = 0]
         /\ UNCHANGED <<mrFragments, mrDisk, lsLastCleanup, lsAlive>>
    ELSE IF lsPending.some /\ ParsePayloadLine(line).some
                           /\ ParsePayloadLine(line).text # <<>>
    THEN ListenProcess(inp, ParsePayloadLine(line).text)
    ELSE /\ ListenPeriodic(ListenLogOf("other", inp))
         /\ UNCHANGED <<mrDisk, lsPending, lsAlive>>

ListenLine(inp) ==
    /\ lsAlive
    /\ lsCount < MaxListenLines
    /\ lsCount' = lsCount + 1
    /\ ListenLineOn(inp, Strip(inp.text), ParseDataMessage(Strip(inp.text)))
    /\ UNCHANGED <<mrNow, mrLast, mrCalls>>
    /\ UNCHANGED <<txVars, rxVars, permVars, sessVars, lineVars, tripVars, meshTxVars,
                   scriptVars, chanVars>>

\* an iteration with nothing waiting: the periodic part only
ListenIdle ==
    /\ lsAlive
    /\ mrNow - lsLastCleanup > CLEANUP_PERIOD
    /\ ListenPeriodic([lsLog EXCEPT !.op = "idle", !.line = <<>>, !.before = mrFragments,
                          !.ran = FALSE, !.now = mrNow, !.emitted = FALSE,
                          !.kind = "", !.src = <<>>, !.payload = <<>>,
                          !.freshBefore = lsLog.fresh, !.whole = FALSE,
                          !.malformed = FALSE])
    /\ UNCHANGED <<mrNow, mrDisk, mrLast, mrCalls, lsPending, lsAlive, lsCount>>
    /\ UNCHANGED <<txVars, rxVars, permVars, sessVars, lineVars, tripVars, meshTxVars,
                   scriptVars, chanVars>>

\* time passes between two iterations
TimeSteps == {61, 240}

Tick(d) ==
    /\ mrNow + d <= MaxNow
    /\ mrNow' = mrNow + d
    /\ UNCHANGED <<lsAlive, lsPending, lsLastCleanup, lsLog, lsCount>>
    /\ UNCHANGED <<txVars, rxVars, permVars, sessVars, lineVars, tripVars, meshVars,
                   scriptVars, chanVars>>

InitExt ==
    /\ InitScript
    /\ mrNow = 0
    /\ lsAlive = TRUE
    /\ lsPending = NoPending
    /\ lsLastCleanup = 0
    /\ lsLog = NoListenLog
    /\ lsCount = 0
    /\ chLines = <<>>
    /\ monOn = FALSE
    /\ chHist = [stolen |-> FALSE, both |-> FALSE]

InitMesh ==
    /\ mPc = "idle"
    /\ mGiven = NoLevel
    /\ mName = <<>>
    /\ mRel = 0
    /\ mIdx = 0
    /\ mTotal = 0
    /\ mSent = 0
    /\ mFailed = 0
    /\ mRet = "none"
    /\ mLastCmd = <<>>
    /\ mHist = NoHist
    /\ mrFragments = <<>>
    /\ mrDisk = <<>>
    /\ mrLast = NoMeshCall
    /\ mrCalls = 0

Init == InitTx /\ InitRx /\ InitPerm /\ InitMesh /\ InitExt

\* the callers (gui_app.py, main) send on a session they have opened
NextTx ==
    \/ Open
    \/ \E t \in Senders, n \in 0..MaxChunks : ser = "open" /\ StartSendFile(t, n)
    \/ \E t \in Senders, w \in BOOLEAN : ser = "open" /\ StartRawLine(t, w)
    \/ \E t \in Senders : WriteAssert(t)
    \/ \E t \in Senders : WriteData(t)
    \/ \E t \in Senders : WriteFlush(t)
    \/ \E t \in Senders : WaitSet(t)
    \/ \E t \in Senders : WaitTimeout(t)
    \/ \E t \in Senders : ConsumeLock(t)
    \/ \E t \in Senders : Consume(t)
    \/ ReaderRead
    \/ ReaderLock
    \/ ReaderSignal
    \/ \E l \in SentinelLines : McuReply(l)

\* the session used by one thread only (the CLI of lora_transceiver.py main)
MainThread == "t1"

NextTxOne ==
    \/ Open
    \/ \E n \in 0..MaxChunks : ser = "open" /\ StartSendFile(MainThread, n)
    \/ \E w \in BOOLEAN : ser = "open" /\ StartRawLine(MainThread, w)
    \/ WriteAssert(MainThread)
    \/ WriteData(MainThread)
    \/ WriteFlush(MainThread)
    \/ WaitSet(MainThread)
    \/ WaitTimeout(MainThread)
    \/ ConsumeLock(MainThread)
    \/ Consume(MainThread)
    \/ ReaderRead
    \/ ReaderLock
    \/ ReaderSignal
    \/ \E l \in SentinelLines : McuReply(l)

SpecTxOne == Init /\ [][NextTxOne]_vars

\* one sender, the reader, the MCU, and a thread that calls close()
NextClose ==
    \/ NextTxOne
    \/ ReaderStop
    \/ ReaderAssertFails
    \/ CloseStart
    \/ CloseJoin
    \/ CloseSer
    \/ CloseReturn

SpecClose == Init /\ [][NextClose]_vars

\* the steps of the thread inside send_file / send_raw_line
SenderStep(t) ==
    \/ WriteAssert(t)
    \/ WriteData(t)
    \/ WriteFlush(t)
    \/ WaitSet(t)
    \/ WaitTimeout(t)
    \/ ConsumeLock(t)
    \/ Consume(t)

\* send_file called on an open session by one thread, with the reader, the
\* MCU and a thread that calls close()
NextSendFile ==
    \/ Open
    \/ \E n \in 0..MaxChunks : ser = "open" /\ StartSendFile(MainThread, n)
    \/ SenderStep(MainThread)
    \/ ReaderRead
    \/ ReaderLock
    \/ ReaderSignal
    \/ \E l \in SentinelLines : McuReply(l)
    \/ ReaderStop
    \/ ReaderAssertFails
    \/ CloseStart
    \/ CloseJoin
    \/ CloseSer
    \/ CloseReturn

\* NextSendFile with the scheduling the threads get: the calling thread keeps
\* running (a wait is left when the event is set or the timeout elapses), and
\* the reader leaves the locked block of _signal_tx.  Nothing obliges the MCU
\* to answer, the reader to read, or close() to be called.
SpecSendFileFair ==
    /\ Init
    /\ [][NextSendFile]_vars
    /\ WF_vars(SenderStep(MainThread))
    /\ WF_vars(ReaderSignal)

\* as NextClose, with send_file / send_raw_line called at any time: before
\* open(), during close() and after it
NextAnyTime ==
    \/ NextClose
    \/ \E n \in 0..MaxChunks : StartSendFile(MainThread, n)
    \/ \E w \in BOOLEAN : StartRawLine(MainThread, w)

SpecAnyTime == Init /\ [][NextAnyTime]_vars

\* the reader of an open session fed any lines
NextReader ==
    \/ Open
    \/ \E raw \in RxLines : ReaderLine(raw)

SpecReader == Init /\ [][NextReader]_vars

SpecTx == Init /\ [][NextTx]_vars

NextRx ==
    \/ \E k \in FragKeys, i \in IdxValues, n \in TotValues, c \in FragTexts :
          AddFrag(k, i, n, c)
    \/ \E f \in FileNames, i \in IdxValues, n \in TotValues, c \in B64Chunks :
          AddChunk(f, i, n, c)

SpecRx == Init /\ [][NextRx]_vars

\* fragments of one message and chunks of one file, with any index and total
NextRxOne ==
    \/ \E i \in IdxValues, n \in TotValues, c \in FragTexts :
          AddFrag(PermKey, i, n, c)
    \/ \E f \in {g \in FileNames : g.stem = "test"} :
       \E i \in IdxValues, n \in TotValues, c \in B64Chunks :
          AddChunk(f, i, n, c)

SpecRxOne == Init /\ [][NextRxOne]_vars

\* fragments of two messages interleaved with each other and with the chunks
\* of one file
NextRxKeys ==
    \/ \E k \in FragKeys, i \in IdxValues, n \in TotValues :
          AddFrag(k, i, n, <<"a">>)
    \/ \E f \in {g \in FileNames : g.stem = "test"} :
       \E i \in IdxValues, n \in TotValues :
          AddChunk(f, i, n, <<18, 6, 21, 44>>)

SpecRxKeys == Init /\ [][NextRxKeys]_vars

NextPerm ==
    \/ \E n \in 1..MaxPermTotal :
          \E order \in DeliveryOrders(n), texts \in [0..(n - 1) -> FragTexts] :
              PermStart(n, order, texts)
    \/ PermDeliver

SpecPerm == Init /\ [][NextPerm]_vars

NextTrip ==
    \/ /\ tripSize = 0
       /\ \E name \in TripNames, raw \in TripPayloads, size \in 1..MaxChunkSize :
             LET n == Cardinality(DOMAIN ChunkSplit(B64Encode(raw), size)) IN
             /\ n <= MaxTripChunks
             /\ \E order \in DeliveryOrders(n) : TripStart(name, raw, size, order)
    \/ TripDeliver

SpecTrip == Init /\ [][NextTrip]_vars

\* one send_file call of MeshNetworkInterface for a.txt, of any length up to
\* MaxMeshChunks, with the node's lines and the deadlines
NextMesh ==
    \/ \E given \in {NoLevel, REL_NONE}, readable \in BOOLEAN, n \in 1..MaxMeshChunks :
          MeshSendFile(given, MeshFileA, readable, n)
    \/ \E ok \in BOOLEAN : MeshSendCommand(ok)
    \/ \E line \in MeshLines : MeshReadLine(line)
    \/ MeshDeadline

SpecMesh == Init /\ [][NextMesh]_vars

\* one send_file call of a short file, of any name and with any reliability
NextMeshRel ==
    \/ \E given \in {NoLevel} \cup REL_NONE..REL_CRITICAL, name \in MeshNames,
          readable \in BOOLEAN, n \in 1..MaxRelChunks :
          MeshSendFile(given, name, readable, n)
    \/ \E ok \in BOOLEAN : MeshSendCommand(ok)
    \/ \E line \in MeshLines : MeshReadLine(line)
    \/ MeshDeadline

SpecMeshRel == Init /\ [][NextMeshRel]_vars

\* one send_text call of a text of any length up to MaxTextLen
NextMeshText ==
    \/ \E len \in 1..MaxTextLen : MeshSendText(len, REL_LOW)
    \/ \E ok \in BOOLEAN : MeshSingleCommand(ok)
    \/ \E line \in MeshLines : MeshSingleLine(line)
    \/ MeshSingleDeadline
    \/ \E ok \in BOOLEAN : MeshSendCommand(ok)
    \/ \E line \in MeshLines : MeshReadLine(line)
    \/ MeshDeadline

SpecMeshText == Init /\ [][NextMeshText]_vars

\* one run of a standalone sender script, the MCU printing any lines
NextScripts ==
    \/ \E script \in Scripts, n \in 0..MaxScriptChunks : ScriptStart(script, n)
    \/ ScriptWrite
    \/ \E raw \in ScriptLines : ScriptReadLine(raw)
    \/ ScriptDeadline

SpecScripts == Init /\ [][NextScripts]_vars

\* MeshReceiver fed whole payloads and the fragments of MeshMsgs in any
\* order, repeated or left out; the same fragments fed to add_frag
NextMeshRx ==
    \/ \E m \in MeshMsgs, i \in 0..1 :
          MeshRxData(m.src, m.seq, FragPayload(i, Len(m.chunks), m.chunks[i + 1]))
    \/ \E src \in {Node1, Node2}, payload \in WholePayloads :
          MeshRxData(src, 0, payload)
    \/ \E m \in MeshMsgs, i \in 0..1 :
          FragDeliver(m.src, m.seq, i, Len(m.chunks), m.chunks[i + 1])

SpecMeshRx == Init /\ [][NextMeshRx]_vars

\* handle_fragment fed fragments with any index, any total and any chunk
\* text, the empty one included
NextMeshFrag ==
    \E src \in {Node1, Node2}, i \in 0..MaxFragIdx, n \in 1..MaxFragTotal,
       chunk \in {<<>>, Str(<<"a">>), Str(<<"b", "c">>)} :
        MeshRxData(src, 0, FragPayload(i, n, chunk))

SpecMeshFrag == Init /\ [][NextMeshFrag]_vars

\* a send_file call of the mesh GUI: the node's lines wait in the serial
\* buffer, and the monitor thread can be switched on and off at any time
NextMeshGui ==
    \/ \E n \in 1..MaxRelChunks : MeshSendFile(NoLevel, MeshFileA, TRUE, n)
    \/ \E ok \in BOOLEAN : MeshSendCommand(ok)
    \/ \E line \in MeshLines : NodeEmit(line)
    \/ MeshReadQueued
    \/ MeshDeadline
    \/ MonitorToggle
    \/ MonitorRead

SpecMeshGui == Init /\ [][NextMeshGui]_vars

\* listen reads the lines of the node, well-formed or not
NextListen == \E inp \in ListenInputs : ListenLine(inp)

SpecListen == Init /\ [][NextListen]_vars

\* listen reads well-formed lines while time passes
NextCleanup ==
    \/ \E inp \in {x \in ListenInputs : ~x.malformed} : ListenLine(inp)
    \/ ListenIdle
    \/ \E d \in TimeSteps : Tick(d)

SpecCleanup == Init /\ [][NextCleanup]_vars

(***************************************************************************)
(* Claims about LoRaSerialSession.send_file (SpecTx).                      *)
(***************************************************************************)
Running(t) == pc[t] # "idle"
Returned(t) == pc[t] = "idle" /\ ret[t] # "none"
IsFileCall(t) == kind[t] = "file"

\* C1: within one send_file call the FILECHUNK lines written so far carry the
\* indices 0, 1, ..., in that order and each once, never more than tot of them,
\* and the line of index k+1 is written only when the call has obtained a
\* success result for each of the indices 0..k.
C1_AscendingAfterSuccess ==
    \A t \in Senders :
        IsFileCall(t) =>
            /\ Len(sent[t]) <= tot[t]
            /\ \A k \in 1..Len(sent[t]) : sent[t][k] = k - 1
            /\ Len(sent[t]) <= acks[t] + 1

C1_Witness ==
    \E t \in Senders : IsFileCall(t) /\ sent[t] = <<0, 1>> /\ acks[t] = 1

\* C2: once the wait of a chunk of send_file has ended with a failure sentinel
\* or by timeout, the call has returned False, the reason of a timeout is the
\* timeout reason, and no line with a higher index has been written.
C2_FailureAborts ==
    \A t \in Senders :
        (IsFileCall(t) /\ failedAt[t] # -1
            /\ (lastRes[t].via = "timeout" \/ IsFailLine(lastRes[t].reason))) =>
            /\ Returned(t) /\ ret[t] = "false"
            /\ Len(sent[t]) = failedAt[t] + 1
            /\ (lastRes[t].via = "timeout" => lastRes[t].reason = TimeoutReason)
            /\ (lastRes[t].via = "signal" => lastRes[t].reason \in SentinelLines)

C2_Witness ==
    \E t, u \in Senders :
        /\ IsFileCall(t) /\ tot[t] = 2 /\ failedAt[t] = 0
        /\ lastRes[t].via = "timeout" /\ ret[t] = "false"
        /\ IsFileCall(u) /\ tot[u] = 2 /\ failedAt[u] = 0
        /\ lastRes[u].via = "signal" /\ IsFailLine(lastRes[u].reason)

\* C3: a returned send_file call returned True exactly if it wrote all tot
\* lines and obtained a success result for every one of them.
C3_TrueIffAllAcked ==
    \A t \in Senders :
        (IsFileCall(t) /\ Returned(t)) =>
            (ret[t] = "true" <=> (Len(sent[t]) = tot[t] /\ acks[t] = tot[t]))

C3_Witness ==
    \E t, u \in Senders :
        /\ IsFileCall(t) /\ Returned(t) /\ ret[t] = "true" /\ tot[t] = 2
        /\ IsFileCall(u) /\ Returned(u) /\ ret[u] = "false" /\ Len(sent[u]) = tot[u]

\* C4: no result that _consume_tx_result takes from the completion slot comes
\* from a sentinel line the reader read before the caller wrote the line it
\* is waiting for.
C4_NoStaleResult ==
    \A t \in Senders : ~(lastRes[t].via = "signal" /\ lastRes[t].stale)

\* C5: never are two send_file calls running on the session at once, each
\* having written a FILECHUNK line.
C5_OneTransferInFlight ==
    \A t, u \in Senders :
        (t # u /\ IsFileCall(t) /\ IsFileCall(u) /\ Running(t) /\ Running(u)) =>
            (sent[t] = <<>> \/ sent[u] = <<>>)

\* C6: never is a thread past ser.write and before the end of ser.flush of
\* _write while another thread is too.
C6_WriteMutex ==
    Cardinality({t \in Senders : pc[t] = "w_flush"}) <= 1

(***************************************************************************)
(* Claims about the reassemblers (SpecPerm, SpecRx).                       *)
(***************************************************************************)
\* the chunk texts of indices 0..n-1, concatenated in index order
RECURSIVE InOrderConcat(_, _)
InOrderConcat(texts, n) ==
    IF n = 0 THEN <<>> ELSE InOrderConcat(texts, n - 1) \o texts[n - 1]

\* C7: when the fragments 0..total-1 of one key are delivered to add_frag in
\* any order, all with the same total, every call but the last returns None
\* and the last returns the chunk texts concatenated in index order.
C7_OrderIndependent ==
    /\ Len(permRets) = permPos
    /\ \A j \in 1..Len(permRets) :
          IF j < permTotal
          THEN permRets[j].kind = "None"
          ELSE /\ permRets[j].kind = "payload"
               /\ permRets[j].payload = InOrderConcat(permTexts, permTotal)

C7_Witness ==
    /\ permTotal = 3 /\ permPos = 3 /\ permOrder = <<2, 0, 1>>
    /\ permTexts[0] # permTexts[1]
    /\ permRets[3].kind = "payload"

\* C8: an add_frag call returns the payload (the stored texts of indices
\* 0..tot-1 in index order) and deletes the entry exactly if the number of
\* stored indices equals the total after the insertion; otherwise it returns
\* None.
C8_PayloadIffFull ==
    rxRet.op = "add_frag" =>
        IF rxRet.full
        THEN /\ rxRet.kind = "payload"
             /\ rxRet.key \notin DOMAIN messages
             /\ rxRet.payload =
                    JoinRange(rxRet.stored, Cardinality(DOMAIN rxRet.stored))
        ELSE rxRet.kind = "None"

IndicesInRange(d) ==
    \A k \in DOMAIN d : \A i \in DOMAIN d[k].chunks : 0 <= i /\ i < d[k].tot

\* C9: every stored chunk index of every pending entry of messages and of
\* files is at least 0 and less than the entry's total.
C9_IndicesInRange == IndicesInRange(messages) /\ IndicesInRange(files)

NoFullEntry(d) ==
    \A k \in DOMAIN d : Cardinality(DOMAIN d[k].chunks) # d[k].tot

\* C10: between calls no pending entry of messages or of files has as many
\* stored indices as its total.
C10_NoFullEntryPending == NoFullEntry(messages) /\ NoFullEntry(files)

\* the pending map the last call worked on
MapOfCall == IF rxRet.op = "add_frag" THEN messages ELSE files

\* C11: a call that re-delivers, with the total the pending entry of its key
\* already has, an index the entry already stores returns nothing, replaces
\* the stored text by the delivered one, and leaves the number of stored
\* indices and the total as they were.
C11_RedeliveryReplaces ==
    (rxRet.redo.hit /\ rxRet.redo.tot = rxRet.redo.tot0) =>
        /\ rxRet.kind = "None"
        /\ rxRet.key \in DOMAIN MapOfCall
        /\ MapOfCall[rxRet.key].chunks[rxRet.redo.idx] = rxRet.redo.chunk
        /\ Cardinality(DOMAIN MapOfCall[rxRet.key].chunks) = rxRet.redo.cnt0
        /\ MapOfCall[rxRet.key].tot = rxRet.redo.tot0

\* C13: a completed assembly never writes over a file that an earlier
\* completion persisted: the file it writes has a name not yet in out_dir.
C13_NeverOverwrites == rxRet.kind = "written" => ~rxRet.clobber

\* C14: when the base64 decode of a completed assembly fails, add_chunk writes
\* no file and the assembly is no longer pending; a chunk of the same filename
\* delivered next starts a new assembly that stores that chunk only.
C14_DecodeFailureDrops ==
    /\ (rxRet.op = "add_chunk" /\ rxRet.kind = "decode_error") =>
           rxRet.diskKept /\ rxRet.key \notin DOMAIN files
    /\ (rxRet.op = "add_chunk" /\ rxRet.prev = <<"decode_error", rxRet.key>>) =>
           rxRet.cnt = 1 /\ ~rxRet.redo.hit

\* a chunk of the same filename arrived right after a failed decode and is
\* the only chunk of the assembly now pending
C14_Witness ==
    /\ rxRet.op = "add_chunk"
    /\ rxRet.prev = <<"decode_error", rxRet.key>>
    /\ rxRet.kind = "None"
    /\ rxRet.key \in DOMAIN files
    /\ disk = EmptyDict

(***************************************************************************)
(* Claims about LoRaSerialSession.close (SpecClose).                       *)
(***************************************************************************)
\* C19: no step of close() changes the completion event, the stored result or
\* the position of a sender; a sender leaves its per-chunk wait only with the
\* event set or by its own timeout; and only the reader's _signal_tx sets the
\* event.
C19_CloseLeavesWait ==
    [][ /\ (closePc' # closePc) =>
              (tx_event' = tx_event /\ tx_last' = tx_last /\ pc' = pc)
        /\ \A t \in Senders :
              (pc[t] = "wait" /\ pc'[t] # "wait") =>
                  \/ tx_event /\ pc'[t] = "lock"
                  \/ ~tx_event /\ lastRes'[t].via = "timeout"
        /\ (tx_event' /\ ~tx_event) => rdPc = "signal" ]_vars

\* close() has returned and the sender is still blocked in its wait
C19_Witness ==
    /\ pc[MainThread] = "wait"
    /\ closes >= 1
    /\ closePc = "idle"

\* C20: whenever a close() call has returned - the first, a later one, or one
\* on a session that was never opened - no exception left it, the stop flag is
\* set and there is no channel.
C20_CloseIdempotent ==
    (closes >= 1 /\ closePc = "idle") =>
        stopFlag /\ ser = "none" /\ ~closeErr

\* an opened session on which close() has returned twice
C20_Witness ==
    /\ closes = 2
    /\ closePc = "idle"
    /\ rdPc # "nothread"

(***************************************************************************)
(* Claims about writes on a channel that is not open (SpecAnyTime).        *)
(***************************************************************************)
\* exceptions of _write that are an IOError: serial.SerialException derives
\* from IOError; AssertionError and AttributeError do not
IOErrors == {"SerialException"}

\* C21: a step of _write taken while the channel is not open writes nothing,
\* and unless it is the assert passing on a closed port object it ends the
\* call with an IOError.
C21_ClosedWriteIsIOError ==
    [][ \A t \in Senders :
          (ser # "open" /\ pc[t] \in {"w_assert", "w_write"} /\ pc'[t] # pc[t]) =>
              /\ sent'[t] = sent[t]
              /\ mcuPending' = mcuPending
              /\ \/ pc[t] = "w_assert" /\ ser = "closed" /\ pc'[t] = "w_write"
                 \/ pc'[t] = "idle" /\ ret'[t] \in IOErrors ]_vars

(***************************************************************************)
(* Claims about MeshNetworkInterface (SpecMesh, SpecMeshRel).              *)
(***************************************************************************)
\* number of waits of the current call: a wait follows each line written
Waits(t) == Len(sent[t])

\* C27: a call of send_file started on an open session returns: each wait
\* for a chunk's result ends, whether or not a sentinel arrives and whether or
\* not the reader thread still runs, and the call makes at most tot waits
C27_SendFileTerminates ==
    /\ [](kind[MainThread] = "file" => Waits(MainThread) <= tot[MainThread])
    /\ (pc[MainThread] = "wait") ~> (pc[MainThread] # "wait")
    /\ (kind[MainThread] = "file" /\ pc[MainThread] # "idle")
          ~> (pc[MainThread] = "idle" /\ ret[MainThread] # "none")

\* send_file returned False after a wait that timed out, with no sentinel
\* ever emitted and the reader stopped
C27_Witness ==
    /\ kind[MainThread] = "file"
    /\ pc[MainThread] = "idle"
    /\ ret[MainThread] = "false"
    /\ lastRes[MainThread].via = "timeout"
    /\ rdPc = "exited"
    /\ rxq = <<>>
    /\ mcuPending = Waits(MainThread)

\* C22: whenever the wait of a chunk has ended by timeout, whatever happened
\* to the chunks before it, failed_chunks grew by exactly one, as it does for
\* a chunk answered by a failure sentinel.
C22_TimeoutCountsAsFailure ==
    /\ mHist.how = "timeout" => mHist.inc = 1
    /\ mHist.how = "failed" => mHist.inc = 1

\* C23: once send_command has failed for a chunk, send_fragmented_data has
\* returned False and no SEND command of a later chunk was attempted.
C23_WriteFailureEndsTransfer ==
    /\ mHist.writeErrs > 0 => (mPc = "done" /\ mRet = "false")
    /\ ~mHist.afterWriteErr

\* the level of the static table for the file names of the model: by the
\* lower-cased extension, MEDIUM for an extension that is not in the table
TableLevel(name) ==
    CASE name \in {MeshFileA, MeshFileUpper} -> REL_LOW
      [] name = MeshFileJpg -> REL_MEDIUM
      [] name = MeshFileSeed -> REL_CRITICAL
      [] name = MeshFileTarGz -> REL_HIGH
      [] OTHER -> REL_MEDIUM

\* the reliability field of a SEND command: SEND:<dest>:<rel>:<data>
CommandLevel(cmd) == ParseInt(Split(cmd, Colon, 3)[3])

\* C25: the level in every SEND command of a send_file transfer is the
\* caller's level when one is given (0 included), and otherwise the level of
\* the table for the lower-cased extension of the file, MEDIUM by default.
C25_ReliabilityUsed ==
    mLastCmd # <<>> =>
        /\ CommandLevel(mLastCmd).ok
        /\ CommandLevel(mLastCmd).val =
               (IF mGiven # NoLevel THEN mGiven ELSE TableLevel(mName))

\* the second SEND command of A.TXT sent with reliability 0 carries level 0
C25_Witness ==
    /\ mGiven = REL_NONE
    /\ mName = MeshFileUpper
    /\ mHist.attempts = 2
    /\ CommandLevel(mLastCmd).val = REL_NONE

\* C24: no SEND command is attempted once more than 30% of total_chunks have
\* failed (by failure sentinel, timeout or write error), and a transfer that
\* ended with that many failed chunks returned False.
C24_AbortAboveThirty ==
    /\ ~mHist.lateSend
    /\ (mPc = "done" /\ TooManyFailures(mHist.trueFailed, mTotal)) => mRet = "false"

\* the same for LoRaSerialSession.send_file: an exception of _write leaves the
\* call, which writes nothing more
SessionWriteFailureEnds ==
    \A t \in Senders :
        ret[t] \in {"AssertionError", "SerialException", "AttributeError"} =>
            pc[t] = "idle"

(***************************************************************************)
(* Claims about MeshReceiver and the keys of reassembly (SpecMeshRx).      *)
(***************************************************************************)
\* the text of a message of MeshMsgs: its two chunks in index order
MsgText(m) == m.chunks[1] \o m.chunks[2]

\* every payload add_frag returns is the text of the message of its key
AddFragKeepsKeysApart ==
    rxRet.kind = "payload" =>
        \E m \in MeshMsgs : <<m.src, m.seq>> = rxRet.key /\ rxRet.payload = MsgText(m)

\* every payload handle_fragment reassembles is the text of the message
\* (source, seq) whose fragment completed it
HandleFragmentKeepsKeysApart ==
    mrLast.emitted =>
        \E m \in MeshMsgs :
            m.src = mrLast.src /\ m.seq = mrLast.seq /\ mrLast.full = MsgText(m)

\* C26: a reassembled payload, of add_frag and of handle_fragment, consists
\* only of the chunks delivered for its own (source, sequence) key.
C26_NoCrossMessagePayload == AddFragKeepsKeysApart /\ HandleFragmentKeepsKeysApart

\* the payload the last process_payload call handed on: the reassembled text
\* of a completed fragment set, else the payload itself
HandledPayload(last) == IF last.emitted THEN last.full ELSE last.payload

\* handle_file got a payload of four fields with an integer size and base64
\* data that decodes
FileDecodes(last, parts) ==
    /\ last.op = "process_payload"
    /\ StartsWith(HandledPayload(last), FileTag)
    /\ Len(parts) = 4
    /\ ParseInt(parts[3]).ok
    /\ B64Decode(parts[4]).ok

\* C28: whenever handle_file got a FILE payload whose size field is an integer
\* and whose data decodes, a file that did not exist before holds all the
\* decoded bytes, every earlier file is as it was, and the only effect of a
\* declared size that differs from the decoded length is the warning.
C28_SizeMismatchOnlyWarns ==
    \A parts \in {Split(HandledPayload(mrLast), Colon, 3)} :
        FileDecodes(mrLast, parts) =>
            /\ mrLast.kind = "saved"
            /\ mrLast.name \notin DOMAIN mrLast.prevDisk
            /\ mrLast.name \in DOMAIN mrDisk
            /\ mrDisk[mrLast.name] = B64Decode(parts[4]).bytes
            /\ DOMAIN mrDisk = DOMAIN mrLast.prevDisk \cup {mrLast.name}
            /\ \A f \in DOMAIN mrLast.prevDisk : mrDisk[f] = mrLast.prevDisk[f]
            /\ mrLast.warned <=>
                   Len(B64Decode(parts[4]).bytes) # ParseInt(parts[3]).val

\* a FILE payload declaring 5 bytes and carrying 3 was saved, with the warning,
\* next to two earlier files
C28_Witness ==
    /\ mrLast.op = "process_payload"
    /\ mrLast.payload = PayloadFileShort
    /\ mrLast.kind = "saved"
    /\ mrLast.warned
    /\ mrLast.size > Len(mrLast.bytes)
    /\ Cardinality(DOMAIN mrLast.prevDisk) = 2
    /\ mrDisk[mrLast.name] = mrLast.bytes
    /\ Len(mrLast.bytes) = 3

\* the step is a call add_frag(src, seq, ...) with (src, seq) = k
AddFragStepOn(k) ==
    /\ rxCalls' = rxCalls + 1
    /\ rxRet'.op = "add_frag"
    /\ rxRet'.key = k

\* the step is the reader's iteration on a FRAG line that _handle_rx_line
\* hands to add_frag with key k
FragLineStepOn(k) ==
    /\ rdCount' = rdCount + 1
    /\ rdLog'.cls = "rx"
    /\ StartsWith(rdLog'.line, FragTag)
    /\ \E parts \in {Split(rdLog'.line, Comma, 7)} :
          /\ Len(parts) >= 8
          /\ ParseInt(parts[3]).ok /\ ParseInt(parts[4]).ok /\ ParseInt(parts[5]).ok
          /\ k = <<parts[2], ParseInt(parts[3]).val>>

\* the step is an add_frag call of key k that returned the joined payload
CompletedOn(k) ==
    \/ AddFragStepOn(k) /\ rxRet'.kind = "payload"
    \/ FragLineStepOn(k) /\ rdLog'.routed

\* C29: a pending entry of MessageReassembler.messages leaves the map only in
\* the add_frag call of its key that returns the payload, and is changed only
\* by an add_frag call of its key; every other step keeps it as it is.
C29_PendingStaysUntilComplete ==
    [][ \A k \in DOMAIN messages :
          /\ k \notin DOMAIN messages' => CompletedOn(k)
          /\ (k \in DOMAIN messages' /\ messages'[k] # messages[k]) =>
                 (AddFragStepOn(k) \/ FragLineStepOn(k)) ]_vars

\* the entry of one key is still pending, as stored, after an add_chunk call
\* or an add_frag call of another key that followed it
C29_Witness ==
    /\ rxCalls = 2
    /\ rxRet.prev = <<"None", <<"A", 1>>>>
    /\ rxRet.key # <<"A", 1>>
    /\ <<"A", 1>> \in DOMAIN messages
    /\ Cardinality(DOMAIN messages[<<"A", 1>>].chunks) = 1

\* the chunks stored for key k in map d (none when k is not pending)
StoredChunks(d, k) == IF k \in DOMAIN d THEN d[k].chunks ELSE EmptyDict

\* a call that delivered (i, n, chunk) for key k took map d to map e and ended
\* as `how`: the completion test compared the number of stored indexes with
\* n, whatever total was stored before, and an entry that stays holds total n
\* and every chunk stored before, with chunk at index i
LatestTotalRules(d, e, k, i, n, chunk, how) ==
    /\ how # "None" <=> Cardinality(DOMAIN StoredChunks(d, k) \cup {i}) = n
    /\ how = "None" => k \in DOMAIN e
    /\ k \in DOMAIN e =>
          /\ e[k].tot = n
          /\ DOMAIN e[k].chunks = DOMAIN StoredChunks(d, k) \cup {i}
          /\ e[k].chunks[i] = chunk
          /\ \A j \in DOMAIN StoredChunks(d, k) \ {i} :
                e[k].chunks[j] = StoredChunks(d, k)[j]

\* C30: in every add_frag and add_chunk call the completion test uses the
\* total of the fragment just delivered; a total that differs from the stored
\* one replaces it without any error, and the chunks stored before are kept.
C30_LatestTotalWins ==
    [][ /\ rxRet'.op = "add_frag" =>
              \A i \in IdxValues, n \in TotValues, c \in FragTexts :
                  AddFrag(rxRet'.key, i, n, c) =>
                      LatestTotalRules(messages, messages', rxRet'.key, i, n, c,
                                       rxRet'.kind)
        /\ rxRet'.op = "add_chunk" =>
              \A i \in IdxValues, n \in TotValues, c \in B64Chunks :
                  AddChunk(rxRet'.key, i, n, c) =>
                      LatestTotalRules(files, files', rxRet'.key, i, n, c,
                                       rxRet'.kind) ]_vars

\* the first fragment of a key left it pending with one chunk, so its total
\* was not 1; the second reported total 1: the entry holds both chunks under
\* total 1 and stays pending
C30_Witness ==
    /\ rxCalls = 2
    /\ rxRet.op = "add_frag"
    /\ rxRet.kind = "None"
    /\ rxRet.prev = <<"None", rxRet.key>>
    /\ rxRet.key \in DOMAIN messages
    /\ messages[rxRet.key].tot = 1
    /\ Cardinality(DOMAIN messages[rxRet.key].chunks) = 2

\* C31: a text longer than 150 characters is sent in (L // 150) + 1 fragments
C31_FragmentCount ==
    mHist.len > CHUNK_SIZE => mTotal = (mHist.len \div CHUNK_SIZE) + 1

\* the number of fragments is the length divided by 150, rounded up
FragmentCountCeil ==
    mHist.len > CHUNK_SIZE =>
        /\ (mTotal - 1) * CHUNK_SIZE < mHist.len
        /\ mHist.len <= mTotal * CHUNK_SIZE

\* send_fragmented_data has returned (send_file returns before it when the
\* file cannot be read, with no SEND command attempted; the single-packet
\* path of send_text has no chunks)
FragmentedReturned == mPc = "done" /\ mHist.attempts > 0 /\ mTotal > 0

\* C32: when send_fragmented_data has returned, it returned True exactly when
\* the SEND command of every chunk was written and its wait ended with a
\* [CMD] Send completed line, and exactly when sent_chunks = total_chunks.
C32_TrueIffAllSent ==
    FragmentedReturned =>
        /\ mRet \in {"true", "false"}
        /\ mRet = "true" <=> (mHist.attempts = mTotal /\ mHist.trueFailed = 0)
        /\ mRet = "true" <=> mSent = mTotal

\* a transfer of ten chunks returned False with nine chunks completed and one
\* timed out, below the abort threshold
C32_Witness ==
    /\ FragmentedReturned
    /\ mTotal = 10
    /\ mSent = 9
    /\ mHist.trueFailed = 1
    /\ mHist.writeErrs = 0
    /\ mRet = "false"

\* C33: in every standalone sender script, once a wait has ended with a failure
\* sentinel no further FILECHUNK line is written in that run
C33_NoWriteAfterFailure == ~sHist.late

\* the same for the two scripts whose loop tests the result of the wait
BreakingScriptsStop == sScript # "tx_send_mseed_7" => ~sHist.late

\* C34: no entry of self.fragments whose number of received indices equals
\* its total_chunks is left pending: handle_fragment removed it and handed
\* its payload on
C34_CompleteEntryLeaves ==
    \A key \in DOMAIN mrFragments :
        Cardinality(DOMAIN mrFragments[key].received_chunks)
            # mrFragments[key].total_chunks

\* a set of fragments with indices 0..total-1 and a non-empty text is removed
\* and handed on by the call that completes it
InRangeSetsLeave ==
    \A key \in DOMAIN mrFragments :
        LET e == mrFragments[key] IN
        ~(/\ DOMAIN e.received_chunks = 0..(e.total_chunks - 1)
          /\ \E i \in DOMAIN e.received_chunks : e.received_chunks[i] # <<>>)

(***************************************************************************)
(* Claims about MeshReceiver.listen and cleanup_old_fragments              *)
(* (SpecCleanup, SpecListen).                                              *)
(***************************************************************************)
\* the keys a cleanup run has removed
Evicted == DOMAIN lsLog.before \ DOMAIN mrFragments

\* C35: a run of cleanup_old_fragments removes exactly the incomplete
\* messages whose last new fragment index arrived more than fragment_timeout
\* seconds ago and leaves every other one as it was; a message reassembled
\* later consists of fragments delivered after the removal only.
C35_CleanupEvictsStaleOnly ==
    /\ lsLog.ran =>
          /\ DOMAIN lsLog.freshBefore = DOMAIN lsLog.before
          /\ Evicted = {k \in DOMAIN lsLog.before :
                          lsLog.now - lsLog.freshBefore[k].last > FRAGMENT_TIMEOUT}
          /\ \A k \in DOMAIN mrFragments : mrFragments[k] = lsLog.before[k]
    /\ (lsLog.op = "payload" /\ lsLog.emitted) => lsLog.whole

\* a cleanup run that removed one message and kept a younger one
C35_Witness == lsLog.ran /\ Evicted # {} /\ mrFragments # EmptyDict

\* C36: every payload that listen processes is attributed to the source of
\* the most recent DATA header line before it, a header is used for at most
\* one payload, and no payload is processed without an unused header.
C36_PayloadUnderLatestHeader ==
    /\ lsLog.used <= 1
    /\ lsLog.op = "payload" => lsLog.hdrSome /\ lsLog.src = lsLog.hdrSrc

\* a payload processed for Node_2, whose header was the latest
C36_Witness == lsLog.op = "payload" /\ lsLog.used = 1 /\ lsLog.hdrSrc = Node2

\* a payload with a field that is no integer leaves the pending messages alone
MalformedPayloadDropped ==
    (lsLog.op = "payload" /\ lsLog.malformed) =>
        mrFragments = lsLog.before /\ lsLog.kind = "error"

\* C37: listen goes on after any malformed line: a DATA header whose seq is
\* no integer, or a FRAG or FILE payload with a non-integer field, is
\* dropped and leaves self.fragments unchanged.
C37_ListenSurvivesMalformed ==
    /\ lsAlive
    /\ lsLog.malformed => mrFragments = lsLog.before

\* close() has returned
AfterClose == closes >= 1 /\ closePc = "idle"

\* C38: once close() has returned the reader thread dispatches nothing
\* more: no step of the reader changes the pending maps, the persisted
\* files or the completion signal.
C38_ReaderQuietAfterClose ==
    [][(AfterClose /\ (ReaderRead \/ ReaderLock \/ ReaderSignal))
          => UNCHANGED <<tx_event, tx_last, messages, files, disk>>]_vars

\* a reader that has left its loop, or died, changes nothing any more
ExitedReaderQuiet ==
    [][(rdPc \in {"exited", "dead", "nothread"})
          => (ReaderRead \/ ReaderLock \/ ReaderSignal) = FALSE]_vars

\* C40: whenever no thread holds _tx_lock, _tx_event is set exactly when
\* _tx_last holds a result; so the only sending thread never gets the
\* fallback result whose reason is "unknown" from _consume_tx_result.
C40_EventIffResult ==
    /\ tx_lock = "none" => (tx_event <=> tx_last.some)
    /\ lastRes[MainThread].reason # "unknown"

\* the sender has consumed a result and the reader has stored the next one
C40_Witness ==
    /\ lastRes[MainThread].via = "signal"
    /\ tx_lock = "none"
    /\ tx_event
    /\ tx_last.some

\* C39: at most one thread reads the lines of an open serial channel, so a
\* sentinel line printed during a chunk wait reaches the code that waits for
\* it; in the mesh path no other thread reads while send_fragmented_data
\* waits.
C39_SoleReader == ~chHist.both /\ ~chHist.stolen

\* LoRaSerialSession: the lines of the MCU leave the queue in the reader
\* thread only
SessionSoleReader == [][rxq' # rxq /\ Len(rxq') < Len(rxq) => ReaderRead]_vars

(***************************************************************************)
(* Claims about the FILECHUNK round trip (SpecTrip).                       *)
(***************************************************************************)
\* <stem>_rx<suffix> of the transmitted names
TestRxTxt == <<Str(<<"t", "e", "s", "t">>), "_rx", Str(<<".", "t", "x", "t">>)>>
ReadmeRx == <<Str(<<"R", "E", "A", "D", "M", "E">>), "_rx", <<>>>>

ExpectedName(name) == IF name = TestTxt THEN TestRxTxt ELSE ReadmeRx

FieldsOf(line) == Split(line, Comma, 0 - 1)

\* a MSG line with fewer than five fields after the tag; a FRAG line with
\* fewer than seven, or whose seq, idx or tot field is not an integer
Malformed(line) ==
    \/ StartsWith(line, MsgTag) /\ Len(FieldsOf(line)) < 6
    \/ /\ StartsWith(line, FragTag)
       /\ \/ Len(FieldsOf(line)) < 8
          \/ ~ParseInt(FieldsOf(line)[3]).ok
          \/ ~ParseInt(FieldsOf(line)[4]).ok
          \/ ~ParseInt(FieldsOf(line)[5]).ok

HasDone(line) == HasSub(line, DoneMarker)
HasFail(line) == HasSub(line, AbortMarker) \/ HasSub(line, FailedMarker)

\* C15: the reader drops a malformed MSG or FRAG line: the pending maps and
\* out_dir are as before, no TX completion is signalled, and the reader goes
\* on to the next line from the state it had.
C15_MalformedDropped ==
    (rdCount > 0 /\ Malformed(rdLog.line)) =>
        /\ rdLog.kept
        /\ rdLog.signal = "none"
        /\ rdLog.sigKept
        /\ rdPc = "read"

\* C16: whatever lines arrive, the reader thread ends only after the stop
\* flag is set.
C16_ReaderSurvives == rdPc = "dead" => stopFlag

\* C17 (as stated): a line with [TX DONE] signals success, a line with
\* [ABORT] or TX FAILED signals failure, neither reaches _handle_rx_line, and
\* a line with no marker leaves the completion signal as it was.
C17_MarkersSignal ==
    rdCount > 0 =>
        /\ HasDone(rdLog.line) =>
              rdLog.signal = "ok" /\ tx_event /\ tx_last.some /\ tx_last.ok
        /\ HasFail(rdLog.line) =>
              rdLog.signal = "fail" /\ tx_event /\ tx_last.some /\ ~tx_last.ok
        /\ (HasDone(rdLog.line) \/ HasFail(rdLog.line)) =>
              ~rdLog.dispatched /\ ~rdLog.routed /\ rdLog.kept
        /\ ~(HasDone(rdLog.line) \/ HasFail(rdLog.line)) => rdLog.sigKept

\* C17 (amended): a line with [TX DONE] signals success; a line with [ABORT]
\* or TX FAILED and without [TX DONE] signals failure; neither reaches
\* _handle_rx_line; a line with no marker leaves the completion signal as it
\* was.
C17_MarkersSignalDoneFirst ==
    rdCount > 0 =>
        /\ HasDone(rdLog.line) =>
              rdLog.signal = "ok" /\ tx_event /\ tx_last.some /\ tx_last.ok
        /\ (HasFail(rdLog.line) /\ ~HasDone(rdLog.line)) =>
              rdLog.signal = "fail" /\ tx_event /\ tx_last.some /\ ~tx_last.ok
        /\ (HasDone(rdLog.line) \/ HasFail(rdLog.line)) =>
              ~rdLog.dispatched /\ ~rdLog.routed /\ rdLog.kept
        /\ ~(HasDone(rdLog.line) \/ HasFail(rdLog.line)) => rdLog.sigKept

\* the second line read carries [ABORT] and not [TX DONE]: a failure result
\* is in the slot and the event is set
C17_Witness ==
    /\ rdCount = 2
    /\ rdLog.line = LineAbort
    /\ rdLog.signal = "fail"
    /\ tx_event
    /\ ~tx_last.ok

\* C18: a MSG line with five fields after the tag is handed to
\* handle_full_payload, with the text after the fifth comma, whatever that
\* text contains.
C18_MsgForwarded ==
    (rdCount > 0 /\ StartsWith(rdLog.line, MsgTag) /\ Len(FieldsOf(rdLog.line)) >= 6) =>
        /\ rdLog.routed
        /\ rdLog.payload = Split(rdLog.line, Comma, 5)[6]

====
